---- MODULE Spec2Model ----
(***************************************************************************)
(* Model of the fitness tracker module (homework.py): the Training         *)
(* calculators, the read_package dispatcher, the main reporter and the     *)
(* driver loop of the script.                                              *)
(*                                                                         *)
(* Numbers.  The raw values are Python ints and every derived quantity is  *)
(* a Python float, an IEEE 754 double.  The model computes with the same   *)
(* two kinds: an int is a sign and an unbounded magnitude, a float is a    *)
(* sign, a 53-bit mantissa and a binary exponent, and every float          *)
(* operation rounds its exact result to the nearest double, ties to even,  *)
(* as the hardware does.  The exponent is not bounded: with raw values     *)
(* that fit 32 bits no result leaves the range of the doubles (Finite      *)
(* states the range).  A division by zero raises ZeroDivisionError, as     *)
(* Python's does for ints and floats alike.  x ** 2 is the C library's    *)
(* pow(x, 2.0), which is not always the rounded product x * x.             *)
(*                                                                         *)
(* Exceptions.  An operator that models a function returns either the      *)
(* function's value or a record with a field "raised" naming the           *)
(* exception class; a raised exception propagates through every caller,    *)
(* up to the driver, which stops.                                          *)
(***************************************************************************)
EXTENDS Integers, Sequences, TLC

----------------------------------------------------------------------------
(* Unbounded naturals: little-endian sequences of limbs of LimbBits binary *)
(* digits, without leading zero limbs; <<>> is 0.                          *)

LimbBits == 12

Base == 2^LimbBits

Min(i, j) == IF i < j THEN i ELSE j

Max(i, j) == IF i > j THEN i ELSE j

RECURSIVE BigNorm(_)
BigNorm(a) ==
    IF Len(a) = 0 THEN <<>>
    ELSE IF a[Len(a)] = 0 THEN BigNorm(SubSeq(a, 1, Len(a) - 1))
    ELSE SubSeq(a, 1, Len(a))

\* the natural number n
RECURSIVE BigOf(_)
BigOf(n) == IF n = 0 THEN <<>> ELSE <<n % Base>> \o BigOf(n \div Base)

\* the integer a natural of at most two limbs is
SmallOf(a) ==
    IF a = <<>> THEN 0
    ELSE a[1] + (IF Len(a) > 1 THEN a[2] * Base ELSE 0)

RECURSIVE BigCmpAt(_, _, _)
BigCmpAt(a, b, i) ==
    IF i = 0 THEN 0
    ELSE IF a[i] < b[i] THEN -1
    ELSE IF a[i] > b[i] THEN 1
    ELSE BigCmpAt(a, b, i - 1)

BigCmp(a, b) ==
    IF Len(a) < Len(b) THEN -1
    ELSE IF Len(a) > Len(b) THEN 1
    ELSE BigCmpAt(a, b, Len(a))

RECURSIVE BigAddC(_, _, _)
BigAddC(a, b, c) ==
    IF a = <<>> /\ b = <<>> THEN (IF c = 0 THEN <<>> ELSE <<c>>)
    ELSE LET x == IF a = <<>> THEN 0 ELSE Head(a)
             y == IF b = <<>> THEN 0 ELSE Head(b)
             s == x + y + c
         IN  <<s % Base>> \o BigAddC(IF a = <<>> THEN a ELSE Tail(a),
                                     IF b = <<>> THEN b ELSE Tail(b),
                                     s \div Base)

BigAdd(a, b) == BigAddC(a, b, 0)

RECURSIVE BigSubC(_, _, _)
BigSubC(a, b, c) ==
    IF a = <<>> THEN <<>>
    ELSE LET y == IF b = <<>> THEN 0 ELSE Head(b)
             s == Head(a) - y - c
         IN  <<s % Base>> \o BigSubC(Tail(a),
                                     IF b = <<>> THEN b ELSE Tail(b),
                                     IF s < 0 THEN 1 ELSE 0)

\* a - b for a >= b
BigSub(a, b) == BigNorm(BigSubC(a, b, 0))

\* a * m + c for a limb-sized m
RECURSIVE BigMulLimb(_, _, _)
BigMulLimb(a, m, c) ==
    IF a = <<>> THEN (IF c = 0 THEN <<>> ELSE <<c>>)
    ELSE LET s == Head(a) * m + c
         IN  <<s % Base>> \o BigMulLimb(Tail(a), m, s \div Base)

\* an argument evaluated once and bound to its value before F is applied
Strict1(F(_), a) == CHOOSE r \in {F(v) : v \in {a}} : TRUE

Strict2(F(_, _), a, b) == CHOOSE r \in {F(v, w) : v \in {a}, w \in {b}} : TRUE

BigShift(a) == IF a = <<>> THEN <<>> ELSE <<0>> \o a

RECURSIVE BigMul(_, _)
BigMul(a, b) ==
    IF a = <<>> \/ b = <<>> THEN <<>>
    ELSE BigAdd(BigNorm(BigMulLimb(a, Head(b), 0)),
                Strict1(BigShift, BigMul(a, Tail(b))))

\* the number of binary digits of a limb, and of a natural
LimbLen(x) == CHOOSE k \in 0..LimbBits : x < 2^k /\ (k > 0 => x >= 2^(k - 1))

BitLen(a) ==
    IF a = <<>> THEN 0 ELSE LimbBits * (Len(a) - 1) + LimbLen(a[Len(a)])

\* a * 2^t
ShiftLeft(a, t) ==
    IF a = <<>> THEN <<>>
    ELSE [i \in 1..(t \div LimbBits) |-> 0]
             \o BigNorm(BigMulLimb(a, 2^(t % LimbBits), 0))

\* a div 2^s
ShiftRight(a, s) ==
    LET d == s \div LimbBits
        p == 2^(s % LimbBits)
        n == Len(a) - d
    IN  IF n <= 0 THEN <<>>
        ELSE BigNorm([i \in 1..n |->
                 (a[d + i] \div p)
                     + (IF i < n THEN (a[d + i + 1] % p) * (Base \div p) ELSE 0)])

\* a mod 2^s is not zero
LowBits(a, s) ==
    LET d == s \div LimbBits
        p == 2^(s % LimbBits)
    IN  \/ \E i \in 1..Min(d, Len(a)) : a[i] # 0
        \/ d < Len(a) /\ a[d + 1] % p # 0

\* the binary digit of a at place j, from 0, is one
Bit(a, j) ==
    LET d == j \div LimbBits
    IN  d < Len(a) /\ (a[d + 1] \div 2^(j % LimbBits)) % 2 = 1

\* <<q, cur - b * q>> for the q with b * q <= cur < b * (q + 1), where
\* cur < b * Base and the top limb of b is at least Base / 2: the quotient
\* of the two top limbs of cur by the top limb of b is then q, q + 1 or q + 2
QuoLimb(cur, b) ==
    LET n   == Len(b)
        top == (IF Len(cur) > n THEN cur[n + 1] * Base ELSE 0)
                   + (IF Len(cur) >= n THEN cur[n] ELSE 0)
        est == Min(top \div b[n], Base - 1)
        q   == CHOOSE k \in Max(0, est - 2)..est :
                   /\ BigCmp(BigNorm(BigMulLimb(b, k, 0)), cur) <= 0
                   /\ BigCmp(BigNorm(BigMulLimb(b, k + 1, 0)), cur) > 0
    IN  <<q, BigSub(cur, BigNorm(BigMulLimb(b, q, 0)))>>

\* from h = <<quotient, remainder>> for the limbs of a above the i-th to
\* that for the limbs from the i-th up
BigDivLimb(h, b, low) ==
    Strict1(LAMBDA g : <<BigNorm(<<g[1]>> \o h[1]), g[2]>>,
            Strict1(LAMBDA cur : QuoLimb(cur, b), BigNorm(<<low>> \o h[2])))

\* long division, most significant limb first
RECURSIVE BigDivFrom(_, _, _)
BigDivFrom(a, b, i) ==
    IF i > Len(a) THEN <<(<<>>), (<<>>)>>
    ELSE Strict1(LAMBDA h : BigDivLimb(h, b, a[i]), BigDivFrom(a, b, i + 1))

BigDivScaled(a, b, sh) ==
    Strict1(LAMBDA dm : <<dm[1], ShiftRight(dm[2], sh)>>,
            Strict2(LAMBDA v, w : BigDivFrom(v, w, 1),
                    ShiftLeft(a, sh), ShiftLeft(b, sh)))

\* <<a div b, a mod b>> for b > 0; both are scaled to bring the top limb of
\* the divisor to Base / 2 or more
BigDivMod(a, b) == BigDivScaled(a, b, LimbBits - LimbLen(b[Len(b)]))

----------------------------------------------------------------------------
(* Python numbers.  An int is [neg, mag], the sign and the magnitude; a    *)
(* float is [neg, man, exp], of value man * 2^exp, where man has MantBits  *)
(* binary digits, or is 0 with exp 0 for the two zeros.                    *)

MantBits == 53

\* a / 2^s for s >= 1, a fraction of a unit more when sticky, rounded to
\* the nearest natural, ties to even
RoundShift(a, s, sticky) ==
    IF Bit(a, s - 1) /\ (sticky \/ LowBits(a, s - 1) \/ Bit(a, s))
    THEN BigAdd(ShiftRight(a, s), <<1>>)
    ELSE ShiftRight(a, s)

Renorm(r, e) ==
    IF BitLen(r) > MantBits THEN [man |-> ShiftRight(r, 1), exp |-> e + 1]
    ELSE [man |-> r, exp |-> e]

RoundBits(n, sticky, e, s) ==
    IF n = <<>> THEN [man |-> <<>>, exp |-> 0]
    ELSE IF s <= 0 THEN [man |-> ShiftLeft(n, -s), exp |-> e + s]
    ELSE Renorm(RoundShift(n, s, sticky), e + s)

\* the mantissa and exponent of the double nearest to n * 2^e, or to a
\* fraction of 2^e more when sticky, ties to even
Round(n, sticky, e) == RoundBits(n, sticky, e, BitLen(n) - MantBits)

Signed(neg, v) == [neg |-> neg, man |-> v.man, exp |-> v.exp]

\* the int a raw value is
IntOf(i) == [neg |-> i < 0, mag |-> BigOf(IF i < 0 THEN -i ELSE i)]

IsRaise(v) == "raised" \in DOMAIN v

IsInt(v) == "mag" \in DOMAIN v

IsFloat(v) == "man" \in DOMAIN v

\* float(v): an int is rounded to the nearest double
ToFloat(v) == IF IsInt(v) THEN Signed(v.neg, Round(v.mag, FALSE, 0)) ELSE v

IsZero(x) == x.man = <<>>

FMul(x, y) ==
    IF IsZero(x) \/ IsZero(y)
    THEN [neg |-> x.neg # y.neg, man |-> <<>>, exp |-> 0]
    ELSE Signed(x.neg # y.neg,
                Round(BigMul(x.man, y.man), FALSE, x.exp + y.exp))

\* the quotient of the mantissas, x's shifted left by k binary places first
FQuo(x, y, k) ==
    Strict1(LAMBDA dm : Round(dm[1], dm[2] # <<>>, x.exp - y.exp - k),
            BigDivMod(ShiftLeft(x.man, k), y.man))

FDiv(x, y) ==
    IF IsZero(y) THEN [raised |-> "ZeroDivisionError"]
    ELSE IF IsZero(x) THEN [neg |-> x.neg # y.neg, man |-> <<>>, exp |-> 0]
    ELSE Signed(x.neg # y.neg,
                FQuo(x, y, Max(0, MantBits + 2 + BitLen(y.man) - BitLen(x.man))))

\* x + y for a = |x| / 2^e and b = |y| / 2^e
FSum(x, y, a, b, e) ==
    IF x.neg = y.neg THEN Signed(x.neg, Round(BigAdd(a, b), FALSE, e))
    ELSE IF BigCmp(a, b) = 0 THEN [neg |-> FALSE, man |-> <<>>, exp |-> 0]
    ELSE IF BigCmp(a, b) > 0 THEN Signed(x.neg, Round(BigSub(a, b), FALSE, e))
    ELSE Signed(y.neg, Round(BigSub(b, a), FALSE, e))

FAdd(x, y) ==
    IF IsZero(x) /\ IsZero(y)
    THEN [neg |-> x.neg /\ y.neg, man |-> <<>>, exp |-> 0]
    ELSE IF IsZero(x) THEN y
    ELSE IF IsZero(y) THEN x
    ELSE Strict2(LAMBDA a, b : FSum(x, y, a, b, Min(x.exp, y.exp)),
                 ShiftLeft(x.man, x.exp - Min(x.exp, y.exp)),
                 ShiftLeft(y.man, y.exp - Min(x.exp, y.exp)))

\* int * int, exact
IntMul(a, b) ==
    [neg |-> a.neg # b.neg /\ a.mag # <<>> /\ b.mag # <<>>,
     mag |-> BigMul(a.mag, b.mag)]

MulV(a, b) ==
    IF IsRaise(a) THEN a ELSE IF IsRaise(b) THEN b
    ELSE IF IsInt(a) /\ IsInt(b) THEN IntMul(a, b)
    ELSE FMul(ToFloat(a), ToFloat(b))

DivV(a, b) ==
    IF IsRaise(a) THEN a ELSE IF IsRaise(b) THEN b
    ELSE FDiv(ToFloat(a), ToFloat(b))

AddV(a, b) ==
    IF IsRaise(a) THEN a ELSE IF IsRaise(b) THEN b
    ELSE FAdd(ToFloat(a), ToFloat(b))

\* x * y; an operand that raised ends the expression, the left one first.
\* The product of two ints is an int, any other a float.
Mul(a, b) == Strict2(MulV, a, b)

\* x / y with a float among x and y, as everywhere in the source: Python
\* raises ZeroDivisionError when y is zero
Div(a, b) == Strict2(DivV, a, b)

\* x + y with a float among x and y, as everywhere in the source
Add(a, b) == Strict2(AddV, a, b)

\* the float literal n.0
Float(n) == ToFloat(IntOf(n))

\* the float literal of the decimal n/d, e.g. 0.65 as Dec(65, 100): the
\* double nearest to it
Dec(n, d) == FDiv(Float(n), Float(d))

----------------------------------------------------------------------------
(* x ** 2.  The interpreter's float_pow hands the operands to pow of the   *)
(* C library, which does not round x * x: it computes exp(y * log(x)),     *)
(* the logarithm and the exponential each from a table of 128 entries and  *)
(* a polynomial, in double arithmetic with fused multiply-adds, and its    *)
(* result is now and then the double next to the rounded square.  The      *)
(* operators below are that computation, step for step, as glibc 2.36      *)
(* makes it on x86-64 with FMA; the constants are its tables.              *)

Dbl(neg, man, exp) == [neg |-> neg, man |-> man, exp |-> exp]

FNeg(x) == [neg |-> ~x.neg, man |-> x.man, exp |-> x.exp]

FSub(x, y) == FAdd(x, FNeg(y))

\* fma(x, y, z): x * y + z, the exact sum rounded once; a zero product
\* added to a zero z is -0.0 only when both are negative
FMA(x, y, z) ==
    IF IsZero(z) /\ ~IsZero(x) /\ ~IsZero(y) THEN FMul(x, y)
    ELSE FAdd(Dbl(x.neg # y.neg, BigMul(x.man, y.man), x.exp + y.exp), z)

\* the integer a float is, for a float that is a small integer
IntValue(x) ==
    (IF x.neg THEN -1 ELSE 1)
        * SmallOf(IF x.exp >= 0 THEN ShiftLeft(x.man, x.exp)
                  ELSE ShiftRight(x.man, -x.exp))

\* ln 2 in two parts, and the coefficients of the polynomial of log1p
PowLn2hi == Dbl(FALSE, <<2048, 4003, 766, 740, 22>>, -53)

PowLn2lo == Dbl(FALSE, <<1840, 3190, 1939, 3893, 30>>, -97)

PowPoly ==
    << Dbl(TRUE, <<0, 0, 0, 0, 16>>, -53),
       Dbl(TRUE, <<1376, 1365, 1365, 1365, 21>>, -53),
       Dbl(FALSE, <<6, 0, 0, 0, 16>>, -53),
       Dbl(FALSE, <<1358, 1429, 2457, 2457, 25>>, -53),
       Dbl(TRUE, <<1146, 666, 1365, 1365, 21>>, -53),
       Dbl(TRUE, <<1513, 1156, 2971, 1173, 18>>, -52),
       Dbl(FALSE, <<4035, 611, 2955, 2, 16>>, -52) >>

\* for the i-th of the 128 intervals of [OFF, 2 * OFF), with c near its
\* centre: <<1/c, log(c), the tail of log(c)>>
PowLogTab(i) ==
    CASE i = 0 -> <<Dbl(FALSE, <<0, 0, 0, 2560, 22>>, -52),
                    Dbl(TRUE, <<2048, 2972, 754, 712, 22>>, -54),
                    Dbl(FALSE, <<1664, 885, 1064, 2882, 26>>, -100)>>
      [] i = 1 -> <<Dbl(FALSE, <<0, 0, 0, 2048, 22>>, -52),
                    Dbl(TRUE, <<2048, 1408, 3519, 3355, 21>>, -54),
                    Dbl(TRUE, <<1824, 3599, 2264, 2640, 28>>, -98)>>
      [] i = 2 -> <<Dbl(FALSE, <<0, 0, 0, 1536, 22>>, -52),
                    Dbl(TRUE, <<2048, 1109, 1815, 1895, 21>>, -54),
                    Dbl(TRUE, <<109, 2917, 1237, 1578, 19>>, -97)>>
      [] i = 3 -> <<Dbl(FALSE, <<0, 0, 0, 1024, 22>>, -52),
                    Dbl(TRUE, <<2048, 735, 3463, 426, 21>>, -54),
                    Dbl(TRUE, <<2005, 2822, 1182, 2126, 22>>, -101)>>
      [] i = 4 -> <<Dbl(FALSE, <<0, 0, 0, 512, 22>>, -52),
                    Dbl(TRUE, <<2048, 1911, 3989, 3045, 20>>, -54),
                    Dbl(TRUE, <<3808, 659, 2451, 438, 20>>, -99)>>
      [] i = 5 -> <<Dbl(FALSE, <<0, 0, 0, 0, 22>>, -52),
                    Dbl(TRUE, <<0, 454, 3010, 1560, 20>>, -54),
                    Dbl(FALSE, <<1228, 1224, 3912, 3458, 19>>, -98)>>
      [] i = 6 -> <<Dbl(FALSE, <<0, 0, 0, 3584, 21>>, -52),
                    Dbl(TRUE, <<2048, 2154, 134, 67, 20>>, -54),
                    Dbl(FALSE, <<2874, 2080, 1005, 1071, 28>>, -102)>>
      [] i = 7 -> <<Dbl(FALSE, <<0, 0, 0, 3072, 21>>, -52),
                    Dbl(TRUE, <<2048, 1684, 3157, 2660, 19>>, -54),
                    Dbl(FALSE, <<1120, 1305, 1670, 2844, 16>>, -97)>>
      [] i = 8 -> <<Dbl(FALSE, <<0, 0, 0, 2560, 21>>, -52),
                    Dbl(TRUE, <<0, 2440, 3482, 1149, 19>>, -54),
                    Dbl(FALSE, <<146, 3160, 3540, 1428, 21>>, -97)>>
      [] i = 9 -> <<Dbl(FALSE, <<0, 0, 0, 2048, 21>>, -52),
                    Dbl(TRUE, <<0, 3602, 698, 3726, 18>>, -54),
                    Dbl(FALSE, <<3032, 2930, 3737, 1969, 22>>, -97)>>
      [] i = 10 -> <<Dbl(FALSE, <<0, 0, 0, 1536, 21>>, -52),
                    Dbl(TRUE, <<2048, 3560, 2579, 2197, 18>>, -54),
                    Dbl(FALSE, <<63, 3323, 1206, 3233, 21>>, -98)>>
      [] i = 11 -> <<Dbl(FALSE, <<0, 0, 0, 1536, 21>>, -52),
                    Dbl(TRUE, <<2048, 3560, 2579, 2197, 18>>, -54),
                    Dbl(FALSE, <<63, 3323, 1206, 3233, 21>>, -98)>>
      [] i = 12 -> <<Dbl(FALSE, <<0, 0, 0, 1024, 21>>, -52),
                    Dbl(TRUE, <<2048, 3319, 507, 660, 18>>, -54),
                    Dbl(TRUE, <<2678, 1341, 1064, 1442, 22>>, -98)>>
      [] i = 13 -> <<Dbl(FALSE, <<0, 0, 0, 512, 21>>, -52),
                    Dbl(TRUE, <<2048, 1689, 2241, 3209, 17>>, -54),
                    Dbl(TRUE, <<1028, 3701, 3176, 2811, 31>>, -98)>>
      [] i = 14 -> <<Dbl(FALSE, <<0, 0, 0, 0, 21>>, -52),
                    Dbl(TRUE, <<2048, 2746, 3243, 1653, 17>>, -54),
                    Dbl(FALSE, <<2288, 2090, 1587, 508, 31>>, -98)>>
      [] i = 15 -> <<Dbl(FALSE, <<0, 0, 0, 3584, 20>>, -52),
                    Dbl(TRUE, <<2048, 2788, 3065, 88, 17>>, -54),
                    Dbl(TRUE, <<2662, 85, 1277, 2700, 22>>, -97)>>
      [] i = 16 -> <<Dbl(FALSE, <<0, 0, 0, 3072, 20>>, -52),
                    Dbl(TRUE, <<0, 1849, 1250, 2610, 16>>, -54),
                    Dbl(TRUE, <<782, 3904, 3710, 1726, 28>>, -99)>>
      [] i = 17 -> <<Dbl(FALSE, <<0, 0, 0, 2560, 20>>, -52),
                    Dbl(TRUE, <<0, 2893, 1428, 1026, 16>>, -54),
                    Dbl(TRUE, <<3455, 3906, 2206, 875, 16>>, -100)>>
      [] i = 18 -> <<Dbl(FALSE, <<0, 0, 0, 2560, 20>>, -52),
                    Dbl(TRUE, <<0, 2893, 1428, 1026, 16>>, -54),
                    Dbl(TRUE, <<3455, 3906, 2206, 875, 16>>, -100)>>
      [] i = 19 -> <<Dbl(FALSE, <<0, 0, 0, 2048, 20>>, -52),
                    Dbl(TRUE, <<0, 1508, 2157, 2961, 31>>, -55),
                    Dbl(FALSE, <<3207, 2451, 2731, 1394, 29>>, -99)>>
      [] i = 20 -> <<Dbl(FALSE, <<0, 0, 0, 1536, 20>>, -52),
                    Dbl(TRUE, <<0, 3526, 3531, 3850, 30>>, -55),
                    Dbl(FALSE, <<3876, 2154, 1948, 619, 27>>, -97)>>
      [] i = 21 -> <<Dbl(FALSE, <<0, 0, 0, 1024, 20>>, -52),
                    Dbl(TRUE, <<0, 687, 1902, 624, 30>>, -55),
                    Dbl(TRUE, <<3856, 1023, 3924, 756, 23>>, -98)>>
      [] i = 22 -> <<Dbl(FALSE, <<0, 0, 0, 512, 20>>, -52),
                    Dbl(TRUE, <<0, 1276, 363, 1474, 29>>, -55),
                    Dbl(FALSE, <<2075, 3238, 443, 2985, 17>>, -97)>>
      [] i = 23 -> <<Dbl(FALSE, <<0, 0, 0, 0, 20>>, -52),
                    Dbl(TRUE, <<0, 2474, 1991, 2303, 28>>, -55),
                    Dbl(FALSE, <<1076, 2552, 3944, 1940, 23>>, -97)>>
      [] i = 24 -> <<Dbl(FALSE, <<0, 0, 0, 0, 20>>, -52),
                    Dbl(TRUE, <<0, 2474, 1991, 2303, 28>>, -55),
                    Dbl(FALSE, <<1076, 2552, 3944, 1940, 23>>, -97)>>
      [] i = 25 -> <<Dbl(FALSE, <<0, 0, 0, 3584, 19>>, -52),
                    Dbl(TRUE, <<0, 729, 1652, 3112, 27>>, -55),
                    Dbl(FALSE, <<1935, 2235, 49, 1259, 25>>, -98)>>
      [] i = 26 -> <<Dbl(FALSE, <<0, 0, 0, 3072, 19>>, -52),
                    Dbl(TRUE, <<0, 2060, 2382, 3900, 26>>, -55),
                    Dbl(FALSE, <<102, 3289, 831, 1254, 26>>, -104)>>
      [] i = 27 -> <<Dbl(FALSE, <<0, 0, 0, 2560, 19>>, -52),
                    Dbl(TRUE, <<0, 3627, 3103, 571, 26>>, -55),
                    Dbl(TRUE, <<490, 1132, 1244, 2246, 21>>, -97)>>
      [] i = 28 -> <<Dbl(FALSE, <<0, 0, 0, 2560, 19>>, -52),
                    Dbl(TRUE, <<0, 3627, 3103, 571, 26>>, -55),
                    Dbl(TRUE, <<490, 1132, 1244, 2246, 21>>, -97)>>
      [] i = 29 -> <<Dbl(FALSE, <<0, 0, 0, 2048, 19>>, -52),
                    Dbl(TRUE, <<0, 3909, 2716, 1317, 25>>, -55),
                    Dbl(TRUE, <<1251, 3101, 2308, 3357, 26>>, -97)>>
      [] i = 30 -> <<Dbl(FALSE, <<0, 0, 0, 1536, 19>>, -52),
                    Dbl(TRUE, <<0, 525, 101, 2042, 24>>, -55),
                    Dbl(FALSE, <<2569, 3519, 3967, 3035, 27>>, -97)>>
      [] i = 31 -> <<Dbl(FALSE, <<0, 0, 0, 1024, 19>>, -52),
                    Dbl(TRUE, <<0, 270, 2306, 2744, 23>>, -55),
                    Dbl(FALSE, <<2648, 1332, 114, 3513, 27>>, -97)>>
      [] i = 32 -> <<Dbl(FALSE, <<0, 0, 0, 1024, 19>>, -52),
                    Dbl(TRUE, <<0, 270, 2306, 2744, 23>>, -55),
                    Dbl(FALSE, <<2648, 1332, 114, 3513, 27>>, -97)>>
      [] i = 33 -> <<Dbl(FALSE, <<0, 0, 0, 512, 19>>, -52),
                    Dbl(TRUE, <<0, 413, 4071, 3424, 22>>, -55),
                    Dbl(TRUE, <<614, 2862, 2723, 3654, 16>>, -98)>>
      [] i = 34 -> <<Dbl(FALSE, <<0, 0, 0, 0, 19>>, -52),
                    Dbl(TRUE, <<0, 2681, 112, 4083, 21>>, -55),
                    Dbl(TRUE, <<57, 261, 927, 2532, 30>>, -98)>>
      [] i = 35 -> <<Dbl(FALSE, <<0, 0, 0, 0, 19>>, -52),
                    Dbl(TRUE, <<0, 2681, 112, 4083, 21>>, -55),
                    Dbl(TRUE, <<57, 261, 927, 2532, 30>>, -98)>>
      [] i = 36 -> <<Dbl(FALSE, <<0, 0, 0, 3584, 18>>, -52),
                    Dbl(TRUE, <<0, 2587, 1507, 622, 21>>, -55),
                    Dbl(TRUE, <<2959, 117, 2960, 3560, 16>>, -97)>>
      [] i = 37 -> <<Dbl(FALSE, <<0, 0, 0, 3072, 18>>, -52),
                    Dbl(TRUE, <<0, 3256, 2924, 1234, 20>>, -55),
                    Dbl(FALSE, <<2108, 855, 353, 204, 23>>, -98)>>
      [] i = 38 -> <<Dbl(FALSE, <<0, 0, 0, 3072, 18>>, -52),
                    Dbl(TRUE, <<0, 3256, 2924, 1234, 20>>, -55),
                    Dbl(FALSE, <<2108, 855, 353, 204, 23>>, -98)>>
      [] i = 39 -> <<Dbl(FALSE, <<0, 0, 0, 2560, 18>>, -52),
                    Dbl(TRUE, <<0, 489, 3104, 1823, 19>>, -55),
                    Dbl(FALSE, <<1082, 629, 1613, 1928, 17>>, -100)>>
      [] i = 40 -> <<Dbl(FALSE, <<0, 0, 0, 2048, 18>>, -52),
                    Dbl(TRUE, <<0, 511, 760, 2389, 18>>, -55),
                    Dbl(TRUE, <<1032, 1820, 23, 2259, 20>>, -97)>>
      [] i = 41 -> <<Dbl(FALSE, <<0, 0, 0, 1536, 18>>, -52),
                    Dbl(TRUE, <<0, 758, 2773, 2930, 17>>, -55),
                    Dbl(TRUE, <<918, 282, 1048, 2058, 30>>, -97)>>
      [] i = 42 -> <<Dbl(FALSE, <<0, 0, 0, 1536, 18>>, -52),
                    Dbl(TRUE, <<0, 758, 2773, 2930, 17>>, -55),
                    Dbl(TRUE, <<918, 282, 1048, 2058, 30>>, -97)>>
      [] i = 43 -> <<Dbl(FALSE, <<0, 0, 0, 1024, 18>>, -52),
                    Dbl(TRUE, <<0, 3337, 3708, 3447, 16>>, -55),
                    Dbl(FALSE, <<3060, 3717, 1672, 1689, 26>>, -99)>>
      [] i = 44 -> <<Dbl(FALSE, <<0, 0, 0, 1024, 18>>, -52),
                    Dbl(TRUE, <<0, 3337, 3708, 3447, 16>>, -55),
                    Dbl(FALSE, <<3060, 3717, 1672, 1689, 26>>, -99)>>
      [] i = 45 -> <<Dbl(FALSE, <<0, 0, 0, 512, 18>>, -52),
                    Dbl(TRUE, <<0, 3518, 305, 3785, 31>>, -56),
                    Dbl(TRUE, <<1010, 2611, 1116, 1877, 21>>, -97)>>
      [] i = 46 -> <<Dbl(FALSE, <<0, 0, 0, 0, 18>>, -52),
                    Dbl(TRUE, <<0, 688, 1902, 624, 30>>, -56),
                    Dbl(FALSE, <<60, 3840, 3114, 834, 26>>, -97)>>
      [] i = 47 -> <<Dbl(FALSE, <<0, 0, 0, 0, 18>>, -52),
                    Dbl(TRUE, <<0, 688, 1902, 624, 30>>, -56),
                    Dbl(FALSE, <<60, 3840, 3114, 834, 26>>, -97)>>
      [] i = 48 -> <<Dbl(FALSE, <<0, 0, 0, 3584, 17>>, -52),
                    Dbl(TRUE, <<0, 1468, 1167, 1509, 28>>, -56),
                    Dbl(TRUE, <<3590, 1531, 1880, 197, 29>>, -98)>>
      [] i = 49 -> <<Dbl(FALSE, <<0, 0, 0, 3072, 17>>, -52),
                    Dbl(TRUE, <<0, 1198, 3386, 2342, 26>>, -56),
                    Dbl(FALSE, <<2760, 1466, 1512, 915, 21>>, -97)>>
      [] i = 50 -> <<Dbl(FALSE, <<0, 0, 0, 3072, 17>>, -52),
                    Dbl(TRUE, <<0, 1198, 3386, 2342, 26>>, -56),
                    Dbl(FALSE, <<2760, 1466, 1512, 915, 21>>, -97)>>
      [] i = 51 -> <<Dbl(FALSE, <<0, 0, 0, 2560, 17>>, -52),
                    Dbl(TRUE, <<0, 794, 1494, 3124, 24>>, -56),
                    Dbl(FALSE, <<1640, 757, 2381, 1986, 19>>, -98)>>
      [] i = 52 -> <<Dbl(FALSE, <<0, 0, 0, 2560, 17>>, -52),
                    Dbl(TRUE, <<0, 794, 1494, 3124, 24>>, -56),
                    Dbl(FALSE, <<1640, 757, 2381, 1986, 19>>, -98)>>
      [] i = 53 -> <<Dbl(FALSE, <<0, 0, 0, 2048, 17>>, -52),
                    Dbl(TRUE, <<0, 3670, 650, 3853, 22>>, -56),
                    Dbl(TRUE, <<986, 823, 1993, 2419, 22>>, -97)>>
      [] i = 54 -> <<Dbl(FALSE, <<0, 0, 0, 1536, 17>>, -52),
                    Dbl(TRUE, <<0, 98, 1855, 432, 21>>, -56),
                    Dbl(FALSE, <<3671, 3173, 2913, 37, 31>>, -98)>>
      [] i = 55 -> <<Dbl(FALSE, <<0, 0, 0, 1536, 17>>, -52),
                    Dbl(TRUE, <<0, 98, 1855, 432, 21>>, -56),
                    Dbl(FALSE, <<3671, 3173, 2913, 37, 31>>, -98)>>
      [] i = 56 -> <<Dbl(FALSE, <<0, 0, 0, 1024, 17>>, -52),
                    Dbl(TRUE, <<0, 446, 1942, 1053, 19>>, -56),
                    Dbl(FALSE, <<991, 3985, 2764, 1517, 28>>, -97)>>
      [] i = 57 -> <<Dbl(FALSE, <<0, 0, 0, 1024, 17>>, -52),
                    Dbl(TRUE, <<0, 446, 1942, 1053, 19>>, -56),
                    Dbl(FALSE, <<991, 3985, 2764, 1517, 28>>, -97)>>
      [] i = 58 -> <<Dbl(FALSE, <<0, 0, 0, 512, 17>>, -52),
                    Dbl(TRUE, <<0, 2616, 1774, 1619, 17>>, -56),
                    Dbl(FALSE, <<777, 2298, 3702, 1989, 20>>, -98)>>
      [] i = 59 -> <<Dbl(FALSE, <<0, 0, 0, 0, 17>>, -52),
                    Dbl(TRUE, <<0, 280, 192, 163, 31>>, -57),
                    Dbl(FALSE, <<3729, 872, 3715, 1433, 29>>, -97)>>
      [] i = 60 -> <<Dbl(FALSE, <<0, 0, 0, 0, 17>>, -52),
                    Dbl(TRUE, <<0, 280, 192, 163, 31>>, -57),
                    Dbl(FALSE, <<3729, 872, 3715, 1433, 29>>, -97)>>
      [] i = 61 -> <<Dbl(FALSE, <<0, 0, 0, 3584, 16>>, -52),
                    Dbl(TRUE, <<0, 408, 3441, 1069, 27>>, -57),
                    Dbl(FALSE, <<76, 3431, 2789, 2087, 28>>, -98)>>
      [] i = 62 -> <<Dbl(FALSE, <<0, 0, 0, 3584, 16>>, -52),
                    Dbl(TRUE, <<0, 408, 3441, 1069, 27>>, -57),
                    Dbl(FALSE, <<76, 3431, 2789, 2087, 28>>, -98)>>
      [] i = 63 -> <<Dbl(FALSE, <<0, 0, 0, 3072, 16>>, -52),
                    Dbl(TRUE, <<0, 812, 2294, 1861, 23>>, -57),
                    Dbl(TRUE, <<494, 3882, 1588, 4036, 28>>, -97)>>
      [] i = 64 -> <<Dbl(FALSE, <<0, 0, 0, 3072, 16>>, -52),
                    Dbl(TRUE, <<0, 812, 2294, 1861, 23>>, -57),
                    Dbl(TRUE, <<494, 3882, 1588, 4036, 28>>, -97)>>
      [] i = 65 -> <<Dbl(FALSE, <<0, 0, 0, 2560, 16>>, -52),
                    Dbl(TRUE, <<0, 4076, 1977, 2536, 19>>, -57),
                    Dbl(FALSE, <<3754, 623, 2037, 43, 21>>, -100)>>
      [] i = 66 -> <<Dbl(FALSE, <<0, 0, 0, 2560, 16>>, -52),
                    Dbl(TRUE, <<0, 4076, 1977, 2536, 19>>, -57),
                    Dbl(FALSE, <<3754, 623, 2037, 43, 21>>, -100)>>
      [] i = 67 -> <<Dbl(FALSE, <<0, 0, 0, 2048, 16>>, -52),
                    Dbl(TRUE, <<0, 1920, 2830, 2089, 31>>, -58),
                    Dbl(TRUE, <<2532, 2016, 1660, 2050, 25>>, -97)>>
      [] i = 68 -> <<Dbl(FALSE, <<0, 0, 0, 2048, 16>>, -52),
                    Dbl(TRUE, <<0, 1920, 2830, 2089, 31>>, -58),
                    Dbl(TRUE, <<2532, 2016, 1660, 2050, 25>>, -97)>>
      [] i = 69 -> <<Dbl(FALSE, <<0, 0, 0, 1536, 16>>, -52),
                    Dbl(TRUE, <<0, 3416, 2823, 2961, 23>>, -58),
                    Dbl(TRUE, <<1593, 4010, 1171, 2261, 24>>, -97)>>
      [] i = 70 -> <<Dbl(FALSE, <<0, 0, 0, 1024, 16>>, -52),
                    Dbl(TRUE, <<0, 4032, 2224, 3082, 31>>, -59),
                    Dbl(TRUE, <<1692, 3386, 3318, 487, 31>>, -102)>>
      [] i = 71 -> <<Dbl(FALSE, <<0, 0, 0, 1024, 16>>, -52),
                    Dbl(TRUE, <<0, 4032, 2224, 3082, 31>>, -59),
                    Dbl(TRUE, <<1692, 3386, 3318, 487, 31>>, -102)>>
      [] i = 72 -> <<Dbl(FALSE, <<0, 0, 0, 512, 16>>, -52),
                    Dbl(TRUE, <<0, 256, 2667, 3586, 31>>, -60),
                    Dbl(TRUE, <<228, 3492, 3853, 3619, 25>>, -98)>>
      [] i = 73 -> <<Dbl(FALSE, <<0, 0, 0, 512, 16>>, -52),
                    Dbl(TRUE, <<0, 256, 2667, 3586, 31>>, -60),
                    Dbl(TRUE, <<228, 3492, 3853, 3619, 25>>, -98)>>
      [] i = 74 -> <<Dbl(FALSE, <<0, 0, 0, 0, 16>>, -52),
                    Dbl(FALSE, <<>>, 0),
                    Dbl(FALSE, <<>>, 0)>>
      [] i = 75 -> <<Dbl(FALSE, <<0, 0, 0, 0, 16>>, -52),
                    Dbl(FALSE, <<>>, 0),
                    Dbl(FALSE, <<>>, 0)>>
      [] i = 76 -> <<Dbl(FALSE, <<0, 0, 0, 3072, 31>>, -53),
                    Dbl(FALSE, <<0, 2192, 1397, 257, 16>>, -59),
                    Dbl(TRUE, <<3048, 2514, 2969, 3190, 16>>, -98)>>
      [] i = 77 -> <<Dbl(FALSE, <<0, 0, 0, 2048, 31>>, -53),
                    Dbl(FALSE, <<0, 2360, 1624, 517, 16>>, -58),
                    Dbl(TRUE, <<2002, 3631, 2822, 3525, 19>>, -97)>>
      [] i = 78 -> <<Dbl(FALSE, <<0, 0, 0, 1024, 31>>, -53),
                    Dbl(FALSE, <<0, 3216, 1320, 1170, 24>>, -58),
                    Dbl(TRUE, <<3124, 1440, 2610, 2571, 26>>, -97)>>
      [] i = 79 -> <<Dbl(FALSE, <<0, 0, 0, 0, 31>>, -53),
                    Dbl(FALSE, <<0, 3700, 3465, 1045, 16>>, -57),
                    Dbl(FALSE, <<1875, 3869, 92, 284, 17>>, -99)>>
      [] i = 80 -> <<Dbl(FALSE, <<0, 0, 0, 3072, 30>>, -53),
                    Dbl(FALSE, <<0, 736, 3796, 1642, 20>>, -57),
                    Dbl(TRUE, <<3368, 3039, 885, 359, 28>>, -97)>>
      [] i = 81 -> <<Dbl(FALSE, <<0, 0, 0, 2048, 30>>, -53),
                    Dbl(FALSE, <<0, 2556, 2580, 2378, 24>>, -57),
                    Dbl(TRUE, <<1661, 1442, 1488, 1945, 25>>, -98)>>
      [] i = 82 -> <<Dbl(FALSE, <<0, 0, 0, 1024, 30>>, -53),
                    Dbl(FALSE, <<0, 3548, 973, 3255, 28>>, -57),
                    Dbl(TRUE, <<2055, 3458, 583, 1679, 26>>, -98)>>
      [] i = 83 -> <<Dbl(FALSE, <<0, 0, 0, 512, 30>>, -53),
                    Dbl(FALSE, <<0, 108, 448, 3747, 30>>, -57),
                    Dbl(TRUE, <<2939, 3219, 3663, 275, 30>>, -99)>>
      [] i = 84 -> <<Dbl(FALSE, <<0, 0, 0, 3584, 29>>, -53),
                    Dbl(FALSE, <<0, 1126, 3025, 2419, 17>>, -56),
                    Dbl(TRUE, <<3739, 217, 3414, 805, 21>>, -97)>>
      [] i = 85 -> <<Dbl(FALSE, <<0, 0, 0, 2560, 29>>, -53),
                    Dbl(FALSE, <<0, 3358, 1447, 3039, 19>>, -56),
                    Dbl(FALSE, <<3799, 3508, 3749, 3205, 28>>, -97)>>
      [] i = 86 -> <<Dbl(FALSE, <<0, 0, 0, 1536, 29>>, -53),
                    Dbl(FALSE, <<0, 2426, 2637, 3733, 21>>, -56),
                    Dbl(TRUE, <<3358, 1489, 1596, 1680, 28>>, -97)>>
      [] i = 87 -> <<Dbl(FALSE, <<0, 0, 0, 1024, 29>>, -53),
                    Dbl(FALSE, <<0, 3756, 778, 13, 23>>, -56),
                    Dbl(FALSE, <<3378, 2526, 3497, 488, 28>>, -101)>>
      [] i = 88 -> <<Dbl(FALSE, <<0, 0, 0, 0, 29>>, -53),
                    Dbl(FALSE, <<0, 1428, 3677, 821, 25>>, -56),
                    Dbl(FALSE, <<2010, 3028, 3130, 277, 19>>, -97)>>
      [] i = 89 -> <<Dbl(FALSE, <<0, 0, 0, 3072, 28>>, -53),
                    Dbl(FALSE, <<0, 2774, 2189, 1708, 27>>, -56),
                    Dbl(TRUE, <<2277, 3958, 43, 2312, 19>>, -98)>>
      [] i = 90 -> <<Dbl(FALSE, <<0, 0, 0, 2560, 28>>, -53),
                    Dbl(FALSE, <<0, 3012, 2049, 2181, 28>>, -56),
                    Dbl(FALSE, <<3283, 1450, 454, 1133, 22>>, -97)>>
      [] i = 91 -> <<Dbl(FALSE, <<0, 0, 0, 1536, 28>>, -53),
                    Dbl(FALSE, <<0, 162, 2435, 3187, 30>>, -56),
                    Dbl(TRUE, <<1504, 3684, 2223, 3078, 29>>, -97)>>
      [] i = 92 -> <<Dbl(FALSE, <<0, 0, 0, 1024, 28>>, -53),
                    Dbl(FALSE, <<0, 3518, 313, 3721, 31>>, -56),
                    Dbl(TRUE, <<2813, 2576, 1615, 845, 21>>, -97)>>
      [] i = 93 -> <<Dbl(FALSE, <<0, 0, 0, 0, 28>>, -53),
                    Dbl(FALSE, <<0, 638, 3714, 376, 17>>, -55),
                    Dbl(FALSE, <<2034, 720, 2254, 3831, 17>>, -97)>>
      [] i = 94 -> <<Dbl(FALSE, <<0, 0, 0, 3584, 27>>, -53),
                    Dbl(FALSE, <<0, 575, 2942, 2722, 17>>, -55),
                    Dbl(FALSE, <<2356, 905, 3652, 2680, 28>>, -97)>>
      [] i = 95 -> <<Dbl(FALSE, <<0, 0, 0, 2560, 27>>, -53),
                    Dbl(FALSE, <<0, 2152, 268, 3350, 18>>, -55),
                    Dbl(FALSE, <<1185, 2075, 3275, 2518, 19>>, -99)>>
      [] i = 96 -> <<Dbl(FALSE, <<0, 0, 0, 2048, 27>>, -53),
                    Dbl(FALSE, <<0, 345, 3248, 1631, 19>>, -55),
                    Dbl(FALSE, <<649, 1207, 2083, 762, 22>>, -103)>>
      [] i = 97 -> <<Dbl(FALSE, <<0, 0, 0, 1024, 27>>, -53),
                    Dbl(FALSE, <<0, 827, 3459, 2323, 20>>, -55),
                    Dbl(FALSE, <<1656, 4059, 2388, 2103, 21>>, -97)>>
      [] i = 98 -> <<Dbl(FALSE, <<0, 0, 0, 512, 27>>, -53),
                    Dbl(FALSE, <<0, 2587, 1508, 638, 21>>, -55),
                    Dbl(FALSE, <<3527, 1687, 2277, 830, 22>>, -97)>>
      [] i = 99 -> <<Dbl(FALSE, <<0, 0, 0, 3584, 26>>, -53),
                    Dbl(FALSE, <<0, 2241, 3774, 1396, 22>>, -55),
                    Dbl(FALSE, <<3704, 962, 2860, 3320, 25>>, -98)>>
      [] i = 100 -> <<Dbl(FALSE, <<0, 0, 0, 3072, 26>>, -53),
                    Dbl(FALSE, <<0, 1879, 651, 3841, 22>>, -55),
                    Dbl(TRUE, <<481, 2498, 3557, 280, 21>>, -97)>>
      [] i = 101 -> <<Dbl(FALSE, <<0, 0, 0, 2560, 26>>, -53),
                    Dbl(FALSE, <<0, 1093, 3461, 2200, 23>>, -55),
                    Dbl(TRUE, <<773, 2324, 112, 1633, 28>>, -98)>>
      [] i = 102 -> <<Dbl(FALSE, <<0, 0, 0, 1536, 26>>, -53),
                    Dbl(FALSE, <<0, 912, 4075, 3050, 24>>, -55),
                    Dbl(TRUE, <<3281, 3730, 1194, 981, 23>>, -99)>>
      [] i = 103 -> <<Dbl(FALSE, <<0, 0, 0, 1024, 26>>, -53),
                    Dbl(FALSE, <<0, 3952, 2780, 1445, 25>>, -55),
                    Dbl(FALSE, <<3951, 2575, 2136, 3874, 23>>, -99)>>
      [] i = 104 -> <<Dbl(FALSE, <<0, 0, 0, 0, 26>>, -53),
                    Dbl(FALSE, <<0, 2222, 3388, 2366, 26>>, -55),
                    Dbl(TRUE, <<361, 1378, 848, 1828, 24>>, -97)>>
      [] i = 105 -> <<Dbl(FALSE, <<0, 0, 0, 3584, 25>>, -53),
                    Dbl(FALSE, <<0, 1469, 2135, 797, 27>>, -55),
                    Dbl(TRUE, <<426, 2766, 3406, 856, 28>>, -99)>>
      [] i = 106 -> <<Dbl(FALSE, <<0, 0, 0, 3072, 25>>, -53),
                    Dbl(FALSE, <<0, 958, 1848, 3336, 27>>, -55),
                    Dbl(TRUE, <<694, 1345, 1113, 1212, 29>>, -97)>>
      [] i = 107 -> <<Dbl(FALSE, <<0, 0, 0, 2560, 25>>, -53),
                    Dbl(FALSE, <<0, 3841, 3014, 1791, 28>>, -55),
                    Dbl(TRUE, <<3026, 2402, 709, 3783, 17>>, -100)>>
      [] i = 108 -> <<Dbl(FALSE, <<0, 0, 0, 1536, 25>>, -53),
                    Dbl(FALSE, <<0, 3401, 3504, 2835, 29>>, -55),
                    Dbl(TRUE, <<53, 347, 2807, 4082, 26>>, -97)>>
      [] i = 109 -> <<Dbl(FALSE, <<0, 0, 0, 1024, 25>>, -53),
                    Dbl(FALSE, <<0, 3697, 3839, 1328, 30>>, -55),
                    Dbl(FALSE, <<1072, 1055, 1888, 290, 18>>, -103)>>
      [] i = 110 -> <<Dbl(FALSE, <<0, 0, 0, 512, 25>>, -53),
                    Dbl(FALSE, <<0, 3536, 3556, 3930, 30>>, -55),
                    Dbl(TRUE, <<3601, 3000, 1381, 529, 26>>, -103)>>
      [] i = 111 -> <<Dbl(FALSE, <<0, 0, 0, 0, 25>>, -53),
                    Dbl(FALSE, <<0, 2875, 3180, 2449, 31>>, -55),
                    Dbl(FALSE, <<3888, 205, 3274, 3262, 27>>, -98)>>
      [] i = 112 -> <<Dbl(FALSE, <<0, 0, 0, 3072, 24>>, -53),
                    Dbl(FALSE, <<2048, 1237, 2144, 1811, 16>>, -54),
                    Dbl(FALSE, <<3729, 3796, 2838, 2509, 24>>, -100)>>
      [] i = 113 -> <<Dbl(FALSE, <<0, 0, 0, 2560, 24>>, -53),
                    Dbl(FALSE, <<0, 1558, 3431, 3138, 16>>, -54),
                    Dbl(FALSE, <<2793, 974, 2838, 392, 23>>, -97)>>
      [] i = 114 -> <<Dbl(FALSE, <<0, 0, 0, 2048, 24>>, -53),
                    Dbl(FALSE, <<2048, 638, 3714, 376, 17>>, -54),
                    Dbl(TRUE, <<28, 2655, 3683, 528, 28>>, -97)>>
      [] i = 115 -> <<Dbl(FALSE, <<0, 0, 0, 1536, 24>>, -53),
                    Dbl(FALSE, <<2048, 2767, 3275, 1717, 17>>, -54),
                    Dbl(FALSE, <<1665, 2641, 3575, 2476, 27>>, -97)>>
      [] i = 116 -> <<Dbl(FALSE, <<0, 0, 0, 1024, 24>>, -53),
                    Dbl(FALSE, <<2048, 1446, 2403, 3065, 17>>, -54),
                    Dbl(FALSE, <<3511, 1147, 3409, 2670, 28>>, -97)>>
      [] i = 117 -> <<Dbl(FALSE, <<0, 0, 0, 512, 24>>, -53),
                    Dbl(FALSE, <<2048, 235, 1389, 324, 18>>, -54),
                    Dbl(FALSE, <<2794, 1131, 3770, 2173, 26>>, -99)>>
      [] i = 118 -> <<Dbl(FALSE, <<0, 0, 0, 3584, 23>>, -53),
                    Dbl(FALSE, <<0, 3529, 124, 3055, 18>>, -54),
                    Dbl(FALSE, <<1268, 1280, 2634, 2511, 26>>, -97)>>
      [] i = 119 -> <<Dbl(FALSE, <<0, 0, 0, 3072, 23>>, -53),
                    Dbl(FALSE, <<0, 3382, 481, 335, 19>>, -54),
                    Dbl(TRUE, <<3256, 531, 2771, 3623, 24>>, -97)>>
      [] i = 120 -> <<Dbl(FALSE, <<0, 0, 0, 2560, 23>>, -53),
                    Dbl(FALSE, <<0, 3041, 1910, 1718, 19>>, -54),
                    Dbl(FALSE, <<1992, 3863, 3504, 1772, 17>>, -98)>>
      [] i = 121 -> <<Dbl(FALSE, <<0, 0, 0, 2048, 23>>, -53),
                    Dbl(FALSE, <<0, 819, 631, 3109, 19>>, -54),
                    Dbl(FALSE, <<3420, 107, 1206, 949, 24>>, -98)>>
      [] i = 122 -> <<Dbl(FALSE, <<0, 0, 0, 1536, 23>>, -53),
                    Dbl(FALSE, <<2048, 3422, 1059, 411, 20>>, -54),
                    Dbl(FALSE, <<157, 2318, 1772, 3651, 24>>, -99)>>
      [] i = 123 -> <<Dbl(FALSE, <<0, 0, 0, 1024, 23>>, -53),
                    Dbl(FALSE, <<2048, 1820, 3522, 1816, 20>>, -54),
                    Dbl(TRUE, <<1653, 1661, 3593, 636, 31>>, -97)>>
      [] i = 124 -> <<Dbl(FALSE, <<0, 0, 0, 512, 23>>, -53),
                    Dbl(FALSE, <<0, 371, 158, 3230, 20>>, -54),
                    Dbl(TRUE, <<2212, 173, 2331, 520, 30>>, -97)>>
      [] i = 125 -> <<Dbl(FALSE, <<0, 0, 0, 0, 23>>, -53),
                    Dbl(FALSE, <<0, 906, 3591, 554, 21>>, -54),
                    Dbl(FALSE, <<1881, 1612, 129, 3047, 30>>, -97)>>
      [] i = 126 -> <<Dbl(FALSE, <<0, 0, 0, 3584, 22>>, -53),
                    Dbl(FALSE, <<0, 3213, 1875, 1983, 21>>, -54),
                    Dbl(FALSE, <<239, 1492, 3566, 2782, 31>>, -98)>>
      [] i = 127 -> <<Dbl(FALSE, <<0, 0, 0, 3072, 22>>, -53),
                    Dbl(FALSE, <<0, 1430, 3551, 3419, 21>>, -54),
                    Dbl(TRUE, <<1500, 2630, 2568, 178, 26>>, -99)>>

\* N / ln 2, the shift that rounds to an integer, -ln 2 / N in two parts,
\* and the coefficients of the polynomial of exp
ExpInvLn2N == Dbl(FALSE, <<766, 696, 1893, 340, 23>>, -45)

ExpShift == Dbl(FALSE, <<0, 0, 0, 0, 24>>, 0)

ExpNegLn2hiN == Dbl(TRUE, <<0, 4000, 766, 740, 22>>, -60)

ExpNegLn2loN == Dbl(TRUE, <<2874, 2531, 2748, 3961, 28>>, -99)

ExpPoly ==
    << Dbl(FALSE, <<3517, 4095, 4095, 4095, 31>>, -54),
       Dbl(FALSE, <<1084, 1365, 1365, 1365, 21>>, -55),
       Dbl(FALSE, <<2961, 370, 1487, 1365, 21>>, -57),
       Dbl(FALSE, <<23, 2637, 359, 273, 17>>, -59) >>

\* for j in 0..127: <<the tail of 2^(j/128), 2^(j/128)>>
ExpTab(j) ==
    CASE j = 0 -> <<Dbl(FALSE, <<>>, 0),
                    Dbl(FALSE, <<0, 0, 0, 0, 16>>, -52)>>
      [] j = 1 -> <<Dbl(FALSE, <<3950, 2187, 3866, 948, 27>>, -106),
                    Dbl(FALSE, <<821, 4019, 3497, 355, 16>>, -52)>>
      [] j = 2 -> <<Dbl(TRUE, <<3165, 3469, 924, 1537, 17>>, -108),
                    Dbl(FALSE, <<97, 1912, 2622, 713, 16>>, -52)>>
      [] j = 3 -> <<Dbl(TRUE, <<1745, 2166, 2576, 1511, 16>>, -106),
                    Dbl(FALSE, <<3973, 1767, 1512, 1073, 16>>, -52)>>
      [] j = 4 -> <<Dbl(FALSE, <<1555, 1663, 565, 3365, 28>>, -107),
                    Dbl(FALSE, <<1396, 344, 211, 1435, 16>>, -52)>>
      [] j = 5 -> <<Dbl(TRUE, <<3834, 3992, 35, 3304, 27>>, -107),
                    Dbl(FALSE, <<1758, 3551, 2857, 1798, 16>>, -52)>>
      [] j = 6 -> <<Dbl(FALSE, <<2145, 3692, 3681, 3956, 16>>, -109),
                    Dbl(FALSE, <<3016, 1881, 1304, 2164, 16>>, -52)>>
      [] j = 7 -> <<Dbl(FALSE, <<921, 829, 1115, 2622, 16>>, -106),
                    Dbl(FALSE, <<899, 3183, 3786, 2531, 16>>, -52)>>
      [] j = 8 -> <<Dbl(FALSE, <<2925, 2103, 1629, 2474, 23>>, -106),
                    Dbl(FALSE, <<2319, 3992, 2156, 2901, 16>>, -52)>>
      [] j = 9 -> <<Dbl(FALSE, <<4092, 4062, 2706, 2897, 30>>, -107),
                    Dbl(FALSE, <<2039, 1828, 555, 3273, 16>>, -52)>>
      [] j = 10 -> <<Dbl(FALSE, <<3281, 761, 3440, 3043, 30>>, -112),
                    Dbl(FALSE, <<418, 3389, 3122, 3646, 16>>, -52)>>
      [] j = 11 -> <<Dbl(TRUE, <<3595, 2310, 1161, 51, 26>>, -109),
                    Dbl(FALSE, <<795, 4077, 1711, 4022, 16>>, -52)>>
      [] j = 12 -> <<Dbl(TRUE, <<3342, 763, 554, 1381, 21>>, -106),
                    Dbl(FALSE, <<2897, 293, 464, 304, 17>>, -52)>>
      [] j = 13 -> <<Dbl(TRUE, <<2645, 1262, 3980, 2062, 16>>, -110),
                    Dbl(FALSE, <<460, 1731, 3520, 683, 17>>, -52)>>
      [] j = 14 -> <<Dbl(TRUE, <<1046, 3423, 953, 3218, 17>>, -106),
                    Dbl(FALSE, <<3552, 2706, 2734, 1065, 17>>, -52)>>
      [] j = 15 -> <<Dbl(FALSE, <<1455, 1477, 1001, 3390, 16>>, -107),
                    Dbl(FALSE, <<3665, 2648, 2248, 1449, 17>>, -52)>>
      [] j = 16 -> <<Dbl(TRUE, <<840, 2649, 1514, 433, 16>>, -107),
                    Dbl(FALSE, <<379, 2005, 2108, 1835, 17>>, -52)>>
      [] j = 17 -> <<Dbl(TRUE, <<573, 3555, 85, 511, 31>>, -107),
                    Dbl(FALSE, <<3562, 2248, 2360, 2223, 17>>, -52)>>
      [] j = 18 -> <<Dbl(FALSE, <<959, 309, 3135, 2200, 27>>, -107),
                    Dbl(FALSE, <<2933, 1788, 3051, 2613, 17>>, -52)>>
      [] j = 19 -> <<Dbl(TRUE, <<2854, 286, 3190, 3481, 22>>, -106),
                    Dbl(FALSE, <<3284, 69, 132, 3006, 17>>, -52)>>
      [] j = 20 -> <<Dbl(FALSE, <<3936, 930, 1854, 3791, 26>>, -106),
                    Dbl(FALSE, <<2474, 1675, 1841, 3400, 17>>, -52)>>
      [] j = 21 -> <<Dbl(TRUE, <<2205, 2147, 715, 3704, 31>>, -107),
                    Dbl(FALSE, <<2333, 4045, 34, 3797, 17>>, -52)>>
      [] j = 22 -> <<Dbl(FALSE, <<909, 2668, 324, 1780, 26>>, -107),
                    Dbl(FALSE, <<3286, 1576, 2952, 99, 18>>, -52)>>
      [] j = 23 -> <<Dbl(FALSE, <<1149, 3648, 1456, 1952, 16>>, -107),
                    Dbl(FALSE, <<3222, 2013, 2449, 500, 18>>, -52)>>
      [] j = 24 -> <<Dbl(FALSE, <<2196, 2698, 3555, 2287, 22>>, -106),
                    Dbl(FALSE, <<568, 1878, 2670, 903, 18>>, -52)>>
      [] j = 25 -> <<Dbl(FALSE, <<2173, 1860, 2290, 1505, 23>>, -107),
                    Dbl(FALSE, <<1599, 2858, 3663, 1308, 18>>, -52)>>
      [] j = 26 -> <<Dbl(FALSE, <<2034, 510, 2968, 1138, 16>>, -107),
                    Dbl(FALSE, <<3293, 3623, 1381, 1716, 18>>, -52)>>
      [] j = 27 -> <<Dbl(TRUE, <<2142, 1808, 2879, 2951, 22>>, -106),
                    Dbl(FALSE, <<897, 3926, 4065, 2125, 18>>, -52)>>
      [] j = 28 -> <<Dbl(FALSE, <<2865, 154, 365, 3966, 18>>, -107),
                    Dbl(FALSE, <<3809, 509, 3573, 2537, 18>>, -52)>>
      [] j = 29 -> <<Dbl(TRUE, <<4090, 1787, 2842, 537, 29>>, -112),
                    Dbl(FALSE, <<2448, 3501, 4048, 2951, 18>>, -52)>>
      [] j = 30 -> <<Dbl(FALSE, <<2740, 192, 626, 888, 27>>, -107),
                    Dbl(FALSE, <<779, 3648, 1446, 3368, 18>>, -52)>>
      [] j = 31 -> <<Dbl(FALSE, <<2959, 3308, 649, 329, 30>>, -109),
                    Dbl(FALSE, <<3926, 994, 4009, 3786, 18>>, -52)>>
      [] j = 32 -> <<Dbl(FALSE, <<2998, 2826, 1357, 1239, 19>>, -107),
                    Dbl(FALSE, <<1813, 795, 3594, 111, 19>>, -52)>>
      [] j = 33 -> <<Dbl(FALSE, <<1100, 2759, 482, 1056, 22>>, -107),
                    Dbl(FALSE, <<2097, 1229, 252, 535, 19>>, -52)>>
      [] j = 34 -> <<Dbl(FALSE, <<2122, 3391, 2397, 3539, 31>>, -107),
                    Dbl(FALSE, <<1791, 1601, 2226, 960, 19>>, -52)>>
      [] j = 35 -> <<Dbl(TRUE, <<2820, 2277, 59, 2616, 22>>, -107),
                    Dbl(FALSE, <<4081, 2345, 1375, 1388, 19>>, -52)>>
      [] j = 36 -> <<Dbl(TRUE, <<104, 1205, 3532, 1198, 18>>, -106),
                    Dbl(FALSE, <<2507, 938, 1847, 1818, 19>>, -52)>>
      [] j = 37 -> <<Dbl(TRUE, <<3470, 1298, 2075, 127, 25>>, -106),
                    Dbl(FALSE, <<2150, 93, 3693, 2250, 19>>, -52)>>
      [] j = 38 -> <<Dbl(TRUE, <<1746, 2371, 2110, 3358, 17>>, -108),
                    Dbl(FALSE, <<4087, 3673, 2868, 2685, 19>>, -52)>>
      [] j = 39 -> <<Dbl(TRUE, <<2837, 3297, 2483, 401, 25>>, -106),
                    Dbl(FALSE, <<2277, 314, 3523, 3122, 19>>, -52)>>
      [] j = 40 -> <<Dbl(FALSE, <<3181, 676, 2215, 2548, 21>>, -107),
                    Dbl(FALSE, <<1058, 291, 1612, 3562, 19>>, -52)>>
      [] j = 41 -> <<Dbl(TRUE, <<2442, 646, 122, 294, 19>>, -106),
                    Dbl(FALSE, <<28, 2760, 1284, 4004, 19>>, -52)>>
      [] j = 42 -> <<Dbl(TRUE, <<2395, 376, 3912, 2680, 24>>, -110),
                    Dbl(FALSE, <<3626, 3954, 2593, 352, 20>>, -52)>>
      [] j = 43 -> <<Dbl(TRUE, <<2587, 1177, 2919, 713, 28>>, -108),
                    Dbl(FALSE, <<2199, 1290, 1497, 799, 20>>, -52)>>
      [] j = 44 -> <<Dbl(FALSE, <<3089, 3114, 3424, 1598, 19>>, -111),
                    Dbl(FALSE, <<2349, 1560, 2144, 1248, 20>>, -52)>>
      [] j = 45 -> <<Dbl(FALSE, <<1263, 102, 2363, 1632, 22>>, -106),
                    Dbl(FALSE, <<87, 464, 493, 1700, 20>>, -52)>>
      [] j = 46 -> <<Dbl(FALSE, <<889, 2576, 474, 3278, 30>>, -109),
                    Dbl(FALSE, <<3280, 3091, 693, 2154, 20>>, -52)>>
      [] j = 47 -> <<Dbl(FALSE, <<560, 241, 3647, 4088, 19>>, -106),
                    Dbl(FALSE, <<990, 3453, 2800, 2610, 20>>, -52)>>
      [] j = 48 -> <<Dbl(FALSE, <<4016, 1962, 3771, 2316, 22>>, -108),
                    Dbl(FALSE, <<2599, 866, 2773, 3069, 20>>, -52)>>
      [] j = 49 -> <<Dbl(FALSE, <<119, 1358, 3563, 475, 19>>, -106),
                    Dbl(FALSE, <<3341, 4061, 665, 3531, 20>>, -52)>>
      [] j = 50 -> <<Dbl(TRUE, <<910, 1818, 1024, 2371, 31>>, -107),
                    Dbl(FALSE, <<3239, 2514, 630, 3995, 20>>, -52)>>
      [] j = 51 -> <<Dbl(TRUE, <<841, 2362, 3292, 3564, 23>>, -107),
                    Dbl(FALSE, <<1602, 3318, 2722, 365, 21>>, -52)>>
      [] j = 52 -> <<Dbl(TRUE, <<2143, 243, 1725, 3564, 24>>, -108),
                    Dbl(FALSE, <<3970, 2516, 2902, 834, 21>>, -52)>>
      [] j = 53 -> <<Dbl(TRUE, <<3318, 1973, 1772, 292, 22>>, -107),
                    Dbl(FALSE, <<527, 1497, 1226, 1306, 21>>, -52)>>
      [] j = 54 -> <<Dbl(FALSE, <<1934, 4061, 1304, 848, 19>>, -106),
                    Dbl(FALSE, <<2010, 2898, 1846, 1780, 21>>, -52)>>
      [] j = 55 -> <<Dbl(FALSE, <<2821, 2217, 1839, 2443, 27>>, -108),
                    Dbl(FALSE, <<2045, 2428, 724, 2257, 21>>, -52)>>
      [] j = 56 -> <<Dbl(FALSE, <<1033, 453, 482, 1598, 16>>, -106),
                    Dbl(FALSE, <<1065, 1157, 2013, 2736, 21>>, -52)>>
      [] j = 57 -> <<Dbl(FALSE, <<1770, 412, 1360, 3192, 20>>, -112),
                    Dbl(FALSE, <<1719, 1428, 1674, 3218, 21>>, -52)>>
      [] j = 58 -> <<Dbl(FALSE, <<53, 1612, 1579, 814, 20>>, -106),
                    Dbl(FALSE, <<328, 2770, 3861, 3702, 21>>, -52)>>
      [] j = 59 -> <<Dbl(TRUE, <<1695, 2455, 2657, 3652, 28>>, -107),
                    Dbl(FALSE, <<3081, 1901, 441, 94, 22>>, -52)>>
      [] j = 60 -> <<Dbl(TRUE, <<3496, 3828, 1339, 828, 28>>, -107),
                    Dbl(FALSE, <<1413, 933, 3760, 583, 22>>, -52)>>
      [] j = 61 -> <<Dbl(TRUE, <<2478, 702, 2185, 1335, 20>>, -107),
                    Dbl(FALSE, <<800, 3276, 1588, 1076, 22>>, -52)>>
      [] j = 62 -> <<Dbl(TRUE, <<2136, 1381, 3448, 3309, 19>>, -106),
                    Dbl(FALSE, <<549, 1362, 2178, 1571, 22>>, -52)>>
      [] j = 63 -> <<Dbl(FALSE, <<2404, 2017, 2688, 266, 23>>, -110),
                    Dbl(FALSE, <<2419, 1226, 1492, 2069, 22>>, -52)>>
      [] j = 64 -> <<Dbl(TRUE, <<552, 1506, 4031, 2878, 19>>, -106),
                    Dbl(FALSE, <<3021, 2035, 3686, 2569, 22>>, -52)>>
      [] j = 65 -> <<Dbl(TRUE, <<2434, 843, 3463, 298, 26>>, -109),
                    Dbl(FALSE, <<2751, 189, 629, 3073, 22>>, -52)>>
      [] j = 66 -> <<Dbl(TRUE, <<2542, 1754, 4024, 1662, 19>>, -109),
                    Dbl(FALSE, <<2607, 1617, 572, 3579, 22>>, -52)>>
      [] j = 67 -> <<Dbl(TRUE, <<2129, 3592, 3412, 3523, 16>>, -107),
                    Dbl(FALSE, <<1156, 1305, 3577, 4087, 22>>, -52)>>
      [] j = 68 -> <<Dbl(TRUE, <<3791, 1443, 1150, 502, 24>>, -108),
                    Dbl(FALSE, <<3956, 3781, 1512, 503, 23>>, -52)>>
      [] j = 69 -> <<Dbl(TRUE, <<3504, 2231, 2752, 3812, 22>>, -107),
                    Dbl(FALSE, <<372, 2648, 2632, 1017, 23>>, -52)>>
      [] j = 70 -> <<Dbl(TRUE, <<1674, 1374, 542, 403, 22>>, -107),
                    Dbl(FALSE, <<1993, 1062, 2902, 1534, 23>>, -52)>>
      [] j = 71 -> <<Dbl(FALSE, <<1235, 157, 2910, 2508, 16>>, -106),
                    Dbl(FALSE, <<3391, 3557, 2383, 2054, 23>>, -52)>>
      [] j = 72 -> <<Dbl(TRUE, <<1309, 1242, 3257, 813, 27>>, -108),
                    Dbl(FALSE, <<391, 3760, 1139, 2577, 23>>, -52)>>
      [] j = 73 -> <<Dbl(FALSE, <<107, 1660, 3412, 3791, 20>>, -106),
                    Dbl(FALSE, <<306, 780, 3329, 3102, 23>>, -52)>>
      [] j = 74 -> <<Dbl(FALSE, <<3157, 3430, 427, 3774, 21>>, -109),
                    Dbl(FALSE, <<3682, 3316, 822, 3631, 23>>, -52)>>
      [] j = 75 -> <<Dbl(TRUE, <<3906, 2876, 1327, 2588, 24>>, -107),
                    Dbl(FALSE, <<2578, 993, 1876, 66, 24>>, -52)>>
      [] j = 76 -> <<Dbl(TRUE, <<1844, 947, 1777, 1691, 19>>, -106),
                    Dbl(FALSE, <<3603, 1228, 2457, 600, 24>>, -52)>>
      [] j = 77 -> <<Dbl(TRUE, <<3870, 415, 1082, 1512, 16>>, -107),
                    Dbl(FALSE, <<1965, 572, 2630, 1137, 24>>, -52)>>
      [] j = 78 -> <<Dbl(TRUE, <<1902, 1829, 216, 3397, 20>>, -106),
                    Dbl(FALSE, <<749, 1097, 2459, 1677, 24>>, -52)>>
      [] j = 79 -> <<Dbl(FALSE, <<2560, 232, 1883, 2774, 16>>, -106),
                    Dbl(FALSE, <<1689, 2214, 2009, 2220, 24>>, -52)>>
      [] j = 80 -> <<Dbl(FALSE, <<2740, 3854, 4033, 2930, 29>>, -107),
                    Dbl(FALSE, <<219, 682, 1346, 2766, 24>>, -52)>>
      [] j = 81 -> <<Dbl(TRUE, <<2047, 3166, 156, 2918, 21>>, -109),
                    Dbl(FALSE, <<1164, 2900, 534, 3315, 24>>, -52)>>
      [] j = 82 -> <<Dbl(FALSE, <<3908, 3893, 857, 3944, 27>>, -108),
                    Dbl(FALSE, <<1846, 343, 3737, 3866, 24>>, -52)>>
      [] j = 83 -> <<Dbl(TRUE, <<3459, 483, 4007, 145, 19>>, -106),
                    Dbl(FALSE, <<4038, 2335, 2827, 325, 25>>, -52)>>
      [] j = 84 -> <<Dbl(TRUE, <<3625, 1729, 2187, 2715, 29>>, -110),
                    Dbl(FALSE, <<1509, 3292, 1968, 883, 25>>, -52)>>
      [] j = 85 -> <<Dbl(TRUE, <<2393, 2315, 2428, 575, 28>>, -109),
                    Dbl(FALSE, <<527, 3205, 1227, 1444, 25>>, -52)>>
      [] j = 86 -> <<Dbl(TRUE, <<2474, 3919, 802, 1076, 18>>, -106),
                    Dbl(FALSE, <<3664, 3556, 671, 2008, 25>>, -52)>>
      [] j = 87 -> <<Dbl(TRUE, <<3659, 1640, 3287, 3238, 21>>, -107),
                    Dbl(FALSE, <<1978, 3232, 368, 2575, 25>>, -52)>>
      [] j = 88 -> <<Dbl(FALSE, <<3623, 2332, 3115, 2815, 17>>, -108),
                    Dbl(FALSE, <<144, 2623, 386, 3145, 25>>, -52)>>
      [] j = 89 -> <<Dbl(FALSE, <<955, 167, 1505, 3363, 29>>, -109),
                    Dbl(FALSE, <<803, 3634, 793, 3718, 25>>, -52)>>
      [] j = 90 -> <<Dbl(TRUE, <<611, 1570, 1058, 3152, 23>>, -107),
                    Dbl(FALSE, <<1381, 1502, 1659, 198, 26>>, -52)>>
      [] j = 91 -> <<Dbl(FALSE, <<469, 3619, 1763, 456, 27>>, -107),
                    Dbl(FALSE, <<3379, 1186, 3052, 777, 26>>, -52)>>
      [] j = 92 -> <<Dbl(TRUE, <<2837, 3019, 467, 3005, 17>>, -106),
                    Dbl(FALSE, <<1373, 994, 946, 1360, 26>>, -52)>>
      [] j = 93 -> <<Dbl(FALSE, <<466, 3811, 412, 3267, 16>>, -106),
                    Dbl(FALSE, <<856, 779, 3603, 1945, 26>>, -52)>>
      [] j = 94 -> <<Dbl(FALSE, <<2739, 1845, 1134, 1688, 20>>, -107),
                    Dbl(FALSE, <<3519, 1951, 2901, 2534, 26>>, -52)>>
      [] j = 95 -> <<Dbl(TRUE, <<3508, 2281, 3479, 3580, 18>>, -107),
                    Dbl(FALSE, <<890, 3391, 3007, 3126, 26>>, -52)>>
      [] j = 96 -> <<Dbl(FALSE, <<903, 3251, 1938, 423, 28>>, -107),
                    Dbl(FALSE, <<941, 1453, 3993, 3721, 26>>, -52)>>
      [] j = 97 -> <<Dbl(TRUE, <<2554, 3357, 3914, 1976, 16>>, -106),
                    Dbl(FALSE, <<1638, 2267, 1833, 224, 27>>, -52)>>
      [] j = 98 -> <<Dbl(TRUE, <<3770, 3530, 2390, 3133, 21>>, -110),
                    Dbl(FALSE, <<1531, 1265, 696, 826, 27>>, -52)>>
      [] j = 99 -> <<Dbl(TRUE, <<1600, 2671, 3645, 2624, 16>>, -106),
                    Dbl(FALSE, <<2362, 3669, 653, 1431, 27>>, -52)>>
      [] j = 100 -> <<Dbl(TRUE, <<820, 2777, 1080, 3439, 24>>, -109),
                    Dbl(FALSE, <<3655, 4021, 1778, 2039, 27>>, -52)>>
      [] j = 101 -> <<Dbl(TRUE, <<2613, 1416, 619, 3822, 17>>, -106),
                    Dbl(FALSE, <<1610, 2576, 48, 2651, 27>>, -52)>>
      [] j = 102 -> <<Dbl(FALSE, <<3533, 1533, 1802, 4093, 20>>, -108),
                    Dbl(FALSE, <<466, 1212, 3728, 3265, 27>>, -52)>>
      [] j = 103 -> <<Dbl(TRUE, <<2220, 2345, 3066, 3039, 17>>, -106),
                    Dbl(FALSE, <<3593, 3441, 603, 3884, 27>>, -52)>>
      [] j = 104 -> <<Dbl(FALSE, <<3251, 2800, 3632, 1770, 19>>, -108),
                    Dbl(FALSE, <<668, 2133, 3037, 409, 28>>, -52)>>
      [] j = 105 -> <<Dbl(FALSE, <<3476, 2559, 604, 3635, 30>>, -107),
                    Dbl(FALSE, <<122, 4093, 2911, 1034, 28>>, -52)>>
      [] j = 106 -> <<Dbl(FALSE, <<2476, 149, 4049, 3592, 20>>, -107),
                    Dbl(FALSE, <<331, 1405, 302, 1663, 28>>, -52)>>
      [] j = 107 -> <<Dbl(FALSE, <<2663, 1249, 3896, 3290, 19>>, -109),
                    Dbl(FALSE, <<1973, 110, 3476, 2294, 28>>, -52)>>
      [] j = 108 -> <<Dbl(FALSE, <<2408, 2337, 3180, 1714, 23>>, -109),
                    Dbl(FALSE, <<105, 3833, 220, 2930, 28>>, -52)>>
      [] j = 109 -> <<Dbl(TRUE, <<1490, 3275, 2179, 2209, 16>>, -107),
                    Dbl(FALSE, <<1018, 1500, 2901, 3568, 28>>, -52)>>
      [] j = 110 -> <<Dbl(TRUE, <<2671, 4095, 3391, 2773, 31>>, -107),
                    Dbl(FALSE, <<2428, 120, 3402, 114, 29>>, -52)>>
      [] j = 111 -> <<Dbl(TRUE, <<2377, 1882, 3640, 218, 16>>, -106),
                    Dbl(FALSE, <<2546, 216, 1800, 760, 29>>, -52)>>
      [] j = 112 -> <<Dbl(FALSE, <<1959, 976, 1446, 2616, 20>>, -108),
                    Dbl(FALSE, <<1159, 4026, 2268, 1409, 29>>, -52)>>
      [] j = 113 -> <<Dbl(TRUE, <<527, 1026, 3616, 2329, 18>>, -107),
                    Dbl(FALSE, <<920, 3224, 790, 2062, 29>>, -52)>>
      [] j = 114 -> <<Dbl(FALSE, <<684, 3097, 213, 1445, 30>>, -107),
                    Dbl(FALSE, <<645, 3507, 1539, 2718, 29>>, -52)>>
      [] j = 115 -> <<Dbl(FALSE, <<2891, 22, 2476, 933, 20>>, -107),
                    Dbl(FALSE, <<1120, 27, 499, 3378, 29>>, -52)>>
      [] j = 116 -> <<Dbl(TRUE, <<3615, 2883, 263, 3410, 18>>, -107),
                    Dbl(FALSE, <<2911, 1977, 1843, 4041, 29>>, -52)>>
      [] j = 117 -> <<Dbl(TRUE, <<3529, 1136, 2363, 683, 25>>, -107),
                    Dbl(FALSE, <<297, 3930, 1556, 612, 30>>, -52)>>
      [] j = 118 -> <<Dbl(FALSE, <<2259, 936, 1120, 2912, 20>>, -108),
                    Dbl(FALSE, <<4086, 2227, 3815, 1282, 30>>, -52)>>
      [] j = 119 -> <<Dbl(FALSE, <<625, 2519, 3153, 3166, 19>>, -107),
                    Dbl(FALSE, <<3203, 3188, 507, 1957, 30>>, -52)>>
      [] j = 120 -> <<Dbl(TRUE, <<496, 3385, 655, 3953, 31>>, -107),
                    Dbl(FALSE, <<218, 2633, 4002, 2634, 30>>, -52)>>
      [] j = 121 -> <<Dbl(TRUE, <<1149, 567, 2274, 2793, 29>>, -107),
                    Dbl(FALSE, <<2033, 2278, 2093, 3316, 30>>, -52)>>
      [] j = 122 -> <<Dbl(FALSE, <<8, 2722, 3137, 3131, 30>>, -107),
                    Dbl(FALSE, <<2599, 1557, 3054, 4001, 30>>, -52)>>
      [] j = 123 -> <<Dbl(FALSE, <<2866, 2718, 1219, 697, 20>>, -107),
                    Dbl(FALSE, <<2711, 1723, 2871, 594, 31>>, -52)>>
      [] j = 124 -> <<Dbl(FALSE, <<1518, 3352, 2353, 1610, 26>>, -107),
                    Dbl(FALSE, <<1344, 1764, 1627, 1287, 31>>, -52)>>
      [] j = 125 -> <<Dbl(TRUE, <<1005, 958, 2788, 891, 30>>, -107),
                    Dbl(FALSE, <<3604, 2507, 3501, 1983, 31>>, -52)>>
      [] j = 126 -> <<Dbl(FALSE, <<3485, 2332, 2893, 2195, 23>>, -108),
                    Dbl(FALSE, <<216, 2537, 385, 2684, 31>>, -52)>>
      [] j = 127 -> <<Dbl(FALSE, <<3209, 1548, 321, 92, 19>>, -110),
                    Dbl(FALSE, <<497, 2295, 555, 3388, 31>>, -52)>>

\* the mantissa of OFF = 0x1.69555p-1, the lower end of the interval the
\* argument of the logarithm is scaled to
PowOff == ShiftLeft(BigOf(1480021), 32)

\* <<hi, lo>> with hi + lo = log(x) to about 68 binary digits, for a normal
\* x > 0: x = 2^k * z with z in [OFF, 2 * OFF), i the interval of z, and
\* log(x) = k * ln 2 + log(c) + log1p(z/c - 1)
PowLogSum(hi, lo) == <<FAdd(hi, lo), FAdd(FSub(hi, FAdd(hi, lo)), lo)>>

PowLogPoly(r, t1, lo1) ==
    LET A    == PowPoly
        ar   == FMul(r, A[1])
        ar2  == FMul(r, ar)
        ar3  == FMul(r, ar2)
        t2   == FAdd(r, t1)
        lo2  == FAdd(FSub(t1, t2), r)
        lo3  == FMA(ar, r, FNeg(ar2))
        hi   == FAdd(t2, ar2)
        lo4  == FAdd(FSub(t2, hi), ar2)
        q1   == FMA(FMA(r, A[7], A[6]), ar2, FMA(r, A[5], A[4]))
        q2   == FMA(ar2, q1, FMA(r, A[3], A[2]))
        lo   == FMA(ar3, q2, FAdd(FAdd(FAdd(lo1, lo2), lo3), lo4))
    IN  PowLogSum(hi, lo)

PowLogAt(z, kd, T) ==
    PowLogPoly(FMA(z, T[1], Float(-1)),
               FMA(kd, PowLn2hi, T[2]),
               FMA(kd, PowLn2lo, T[3]))

PowLogInline(x) ==
    LET above == BigCmp(x.man, PowOff) >= 0
        k     == x.exp + MantBits - 1 + (IF above THEN 1 ELSE 0)
        low   == IF above THEN BigSub(x.man, PowOff)
                 ELSE BigSub(BigAdd(x.man, ShiftLeft(<<1>>, MantBits - 1)),
                             PowOff)
        i     == SmallOf(ShiftRight(low, 45))
    IN  PowLogAt(Dbl(FALSE, x.man, x.exp - k), Float(k), PowLogTab(i))

\* exp(x + xtail) for N = 128, the integer n nearest to x * N / ln 2 and
\* r = x - n * ln 2 / N + xtail: 2^(n/N) * exp(r), computed as scale +
\* scale * (tail + the polynomial of r) with scale = 2^(n div N) * 2^(j/N)
\* for j = n mod N
ExpScaled(r, n, T) ==
    LET C     == ExpPoly
        r2    == FMul(r, r)
        t     == FMA(FMA(r, C[2], C[1]), r2, FAdd(r, T[1]))
        tmp   == FMA(FMA(r, C[4], C[3]), FMul(r2, r2), t)
        scale == Dbl(FALSE, T[2].man, T[2].exp + (n - (n % 128)) \div 128)
    IN  FMA(tmp, scale, scale)

ExpReduced(x, xtail, kd) ==
    ExpScaled(FAdd(xtail, FMA(kd, ExpNegLn2loN, FMA(kd, ExpNegLn2hiN, x))),
              IntValue(kd), ExpTab(IntValue(kd) % 128))

\* below 2^-54 in magnitude x gives 1.0 + x; the sum's exponent there is
\* under -54 - (MantBits - 1)
ExpInline(x, xtail) ==
    IF IsZero(x) \/ x.exp < -54 - (MantBits - 1) THEN FAdd(Float(1), x)
    ELSE ExpReduced(x, xtail, FSub(FMA(x, ExpInvLn2N, ExpShift), ExpShift))

PowHiLo(y, l) ==
    ExpInline(FMul(y, l[1]),
              FMA(y, l[2], FMA(l[1], y, FNeg(FMul(y, l[1])))))

\* pow(x, y) for a normal x > 0 and y = 2.0
LibmPow(x, y) == Strict1(LAMBDA l : PowHiLo(y, l), PowLogInline(x))

\* float_pow(x, 2.0) of the interpreter: a zero gives 0.0, a negative x is
\* negated first (2 is even), 1.0 gives 1.0, anything else is pow's
FloatPow2(x) ==
    IF IsZero(x) THEN Float(0)
    ELSE IF x.man = Float(1).man /\ x.exp = Float(1).exp THEN Float(1)
    ELSE LibmPow(Dbl(FALSE, x.man, x.exp), Float(2))

SquareV(a) == IF IsRaise(a) THEN a ELSE FloatPow2(a)

\* x ** 2 for a float x; an operand that raised ends the expression
Square(a) == Strict1(SquareV, a)

----------------------------------------------------------------------------
(* f'{value:.3f}': the double's exact value rounded to three decimals,     *)
(* ties to even, as digits.                                                *)

Pad(n, width) ==
    LET s == ToString(n)
    IN  IF Len(s) + 3 <= width THEN "000" \o s
        ELSE IF Len(s) + 2 <= width THEN "00" \o s
        ELSE IF Len(s) + 1 <= width THEN "0" \o s
        ELSE s

DigitGroup == 10000

\* the decimal digits of a natural, a group of four at a time
RECURSIVE BigDigits(_)
BigDigits(a) ==
    IF Len(a) <= 1 THEN ToString(SmallOf(a))
    ELSE Strict1(LAMBDA dm : IF dm[1] = <<>> THEN ToString(SmallOf(dm[2]))
                             ELSE BigDigits(dm[1]) \o Pad(SmallOf(dm[2]), 4),
                 BigDivMod(a, BigOf(DigitGroup)))

\* the thousandths nearest to |x|
Thousandths(x) ==
    IF x.exp >= 0 THEN ShiftLeft(BigNorm(BigMulLimb(x.man, 1000, 0)), x.exp)
    ELSE RoundShift(BigNorm(BigMulLimb(x.man, 1000, 0)), -x.exp, FALSE)

Digits3f(neg, parts) ==
    (IF neg THEN "-" ELSE "") \o BigDigits(parts[1]) \o "."
        \o Pad(SmallOf(parts[2]), 3)

Format3f(v) ==
    Strict1(LAMBDA parts : Digits3f(ToFloat(v).neg, parts),
            BigDivMod(Thousandths(ToFloat(v)), BigOf(1000)))

----------------------------------------------------------------------------
(* class InfoMessage                                                       *)

\* InfoMessage(training_type, duration, distance, speed, calories); the
\* keyword arguments are evaluated in this order, and the first one that
\* raises ends the call.
InfoMessageV(training_type, duration, distance, speed, calories) ==
    IF IsRaise(distance) THEN distance
    ELSE IF IsRaise(speed) THEN speed
    ELSE IF IsRaise(calories) THEN calories
    ELSE [training_type |-> training_type,
          duration      |-> duration,
          distance      |-> distance,
          speed         |-> speed,
          calories      |-> calories]

InfoMessage(training_type, duration, distance, speed, calories) ==
    CHOOSE m \in {InfoMessageV(training_type, duration, d, s, c) :
                       d \in {distance}, s \in {speed}, c \in {calories}} : TRUE

\* InfoMessage.get_message: the line's five interpolated parts, in the order
\* of the template (its fixed text between them is the same for every line)
get_message(self) ==
    << self.training_type,
       Format3f(IntOf(self.duration)),
       Format3f(self.distance),
       Format3f(self.speed),
       Format3f(self.calories) >>

----------------------------------------------------------------------------
(* class Training and its subclasses.  An object is a record of its        *)
(* attributes, with its class name in the field "class"; the attributes    *)
(* hold the raw values as passed.                                          *)

\* mutant: Swimming does not override LEN_STEP
LEN_STEPBase(class) == Dec(65, 100)

\* the class attribute LEN_STEP as self.LEN_STEP finds it
LEN_STEP(class) == IF class = "Swimming" THEN Dec(138, 100) ELSE Dec(65, 100)

M_IN_KM == Float(1000)

H_IN_M == Float(60)

CALORIES_MEAN_SPEED_MULTIPLIER == Float(18)

CALORIES_MEAN_SPEED_SHIFT == Dec(179, 100)

KMH_IN_MS == Dec(278, 1000)

WEIGHT_MULTIPLIER == Dec(35, 1000)

AVER_SPEED_CALORIE == Dec(29, 1000)

SM_IN_M == Float(100)

MEAN_SPEED_SHIFT == Dec(11, 10)

SPEED_MULTIPLIER == Float(2)

Classes == {"Training", "Running", "SportsWalking", "Swimming"}

\* the parameters of the class's __init__ after self
InitParams(class) ==
    IF class = "SportsWalking"
    THEN <<"action", "duration", "weight", "height">>
    ELSE IF class = "Swimming"
    THEN <<"action", "duration", "weight", "length_pool", "count_pool">>
    ELSE <<"action", "duration", "weight">>

\* the function that the call class(...) runs
InitOwner(class) ==
    IF class \in {"SportsWalking", "Swimming"} THEN class ELSE "Training"

TrainingInit(class, action, duration, weight) ==
    [class |-> class, action |-> action, duration |-> duration,
     weight |-> weight]

SportsWalkingInit(class, action, duration, weight, height) ==
    TrainingInit(class, action, duration, weight) @@ [height |-> height]

\* mutant: the two pool arguments stored the other way round
SwimmingInitSwapped(class, action, duration, weight, length_pool, count_pool) ==
    TrainingInit(class, action, duration, weight)
        @@ [length_pool |-> count_pool, count_pool |-> length_pool]

SwimmingInit(class, action, duration, weight, length_pool, count_pool) ==
    TrainingInit(class, action, duration, weight)
        @@ [length_pool |-> length_pool, count_pool |-> count_pool]

\* mutant: arguments beyond the parameters are dropped, not refused
NewTruncating(class, args) ==
    IF Len(args) < Len(InitParams(class))
    THEN [raised |-> "TypeError", callee |-> InitOwner(class) \o ".__init__",
          takes |-> Len(InitParams(class)), given |-> Len(args)]
    ELSE IF class = "SportsWalking"
    THEN SportsWalkingInit(class, args[1], args[2], args[3], args[4])
    ELSE IF class = "Swimming"
    THEN SwimmingInit(class, args[1], args[2], args[3], args[4], args[5])
    ELSE TrainingInit(class, args[1], args[2], args[3])

\* class(*args): Python binds the arguments to the parameters by position
\* and raises TypeError when their number is not the parameters'
New(class, args) ==
    IF Len(args) # Len(InitParams(class))
    THEN [raised |-> "TypeError", callee |-> InitOwner(class) \o ".__init__",
          takes |-> Len(InitParams(class)), given |-> Len(args)]
    ELSE IF class = "SportsWalking"
    THEN SportsWalkingInit(class, args[1], args[2], args[3], args[4])
    ELSE IF class = "Swimming"
    THEN SwimmingInit(class, args[1], args[2], args[3], args[4], args[5])
    ELSE TrainingInit(class, args[1], args[2], args[3])

get_distance(self) ==
    Div(Mul(IntOf(self.action), LEN_STEP(self.class)), M_IN_KM)

\* mutant: a zero duration is guarded, the speed is then zero
TrainingGetMeanSpeedGuarded(self) ==
    IF self.duration = 0 THEN Float(0)
    ELSE Div(get_distance(self), IntOf(self.duration))

TrainingGetMeanSpeed(self) ==
    Div(get_distance(self), IntOf(self.duration))

SwimmingGetMeanSpeed(self) ==
    Div(Div(Mul(IntOf(self.length_pool), IntOf(self.count_pool)),
                  M_IN_KM),
           IntOf(self.duration))

\* mutant: Swimming does not override get_mean_speed
get_mean_speedBase(self) == TrainingGetMeanSpeed(self)

get_mean_speed(self) ==
    IF self.class = "Swimming" THEN SwimmingGetMeanSpeed(self)
    ELSE TrainingGetMeanSpeed(self)

TrainingGetSpentCalories(self) ==
    [raised |-> "NotImplementedError", subclass |-> self.class]

RunningGetSpentCalories(self) ==
    Mul(
      Mul(
        Div(
          Mul(
            Add(Mul(CALORIES_MEAN_SPEED_MULTIPLIER, get_mean_speed(self)),
                   CALORIES_MEAN_SPEED_SHIFT),
            IntOf(self.weight)),
          M_IN_KM),
        IntOf(self.duration)),
      H_IN_M)

\* mutant: the squared speed is divided by the weight, not the height
SportsWalkingGetSpentCaloriesByWeight(self) ==
    LET mean_speed_ms == Mul(get_mean_speed(self), KMH_IN_MS)
    IN  Mul(
          Mul(
            Add(
              Mul(WEIGHT_MULTIPLIER, IntOf(self.weight)),
              Mul(
                Mul(
                  Div(Square(mean_speed_ms),
                         Div(IntOf(self.weight), SM_IN_M)),
                  AVER_SPEED_CALORIE),
                IntOf(self.weight))),
            IntOf(self.duration)),
          H_IN_M)

SportsWalkingGetSpentCalories(self) ==
    LET mean_speed_ms == Mul(get_mean_speed(self), KMH_IN_MS)
    IN  Mul(
          Mul(
            Add(
              Mul(WEIGHT_MULTIPLIER, IntOf(self.weight)),
              Mul(
                Mul(
                  Div(Square(mean_speed_ms),
                         Div(IntOf(self.height), SM_IN_M)),
                  AVER_SPEED_CALORIE),
                IntOf(self.weight))),
            IntOf(self.duration)),
          H_IN_M)

SwimmingGetSpentCalories(self) ==
    Mul(
      Mul(
        Mul(Add(get_mean_speed(self), MEAN_SPEED_SHIFT),
               SPEED_MULTIPLIER),
        IntOf(self.weight)),
      IntOf(self.duration))

\* mutant: Swimming does not override get_spent_calories
get_spent_caloriesNoSwimming(self) ==
    IF self.class = "Running" THEN RunningGetSpentCalories(self)
    ELSE IF self.class = "SportsWalking" THEN SportsWalkingGetSpentCalories(self)
    ELSE TrainingGetSpentCalories(self)

get_spent_calories(self) ==
    IF self.class = "Running" THEN RunningGetSpentCalories(self)
    ELSE IF self.class = "SportsWalking" THEN SportsWalkingGetSpentCalories(self)
    ELSE IF self.class = "Swimming" THEN SwimmingGetSpentCalories(self)
    ELSE TrainingGetSpentCalories(self)

show_training_info(self) ==
    InfoMessage(self.class, self.duration, get_distance(self),
                get_mean_speed(self), get_spent_calories(self))

----------------------------------------------------------------------------
(* read_package and main                                                   *)

\* the dict training_types, in insertion order: <<key, class>>
training_types ==
    << <<"RUN", "Running">>, <<"SWM", "Swimming">>, <<"WLK", "SportsWalking">> >>

Keys(dict) == [k \in 1..Len(dict) |-> dict[k][1]]

\* sep.join(items)
RECURSIVE Join(_, _)
Join(sep, items) ==
    IF items = <<>> THEN ""
    ELSE IF Len(items) = 1 THEN items[1]
    ELSE items[1] \o sep \o Join(sep, Tail(items))

Lookup(dict, key) ==
    dict[CHOOSE k \in 1..Len(dict) : dict[k][1] = key][2]

\* mutant: an unknown code falls back to Running
read_packageDefault(workout_type, data) ==
    IF \A k \in 1..Len(training_types) : training_types[k][1] # workout_type
    THEN New("Running", data)
    ELSE New(Lookup(training_types, workout_type), data)

read_package(workout_type, data) ==
    IF \A k \in 1..Len(training_types) : training_types[k][1] # workout_type
    THEN [raised |-> "ValueError", workout_type |-> workout_type,
          workout_list |-> Join(", ", Keys(training_types))]
    ELSE New(Lookup(training_types, workout_type), data)

\* main(training): the message it prints, or the exception it lets through
MainPrint(info) ==
    IF IsRaise(info) THEN info ELSE [print |-> get_message(info)]

main(training) == Strict1(MainPrint, show_training_info(training))

----------------------------------------------------------------------------
(* The script: for workout_type, data in packages: read_package, main.     *)

VARIABLES
    packages,   \* the list the loop iterates: <<workout_type, data>> pairs
    idx,        \* the position of the loop in packages, from 1
    pc,         \* "for", "main", "exit" or "traceback"
    training,   \* the loop's variable training
    stdout,     \* the lines printed so far
    err,        \* the exception that ended the run
    origin,     \* a direct use of the module: the call that made obj
    obj,        \* ... the object it returned
    call,       \* ... the method then called on obj
    result      \* ... and what the last call returned or raised

vars == <<packages, idx, pc, training, stdout, err, origin, obj, call, result>>

scriptVars == <<packages, idx, pc, training, stdout, err>>

unitVars == <<origin, obj, call, result>>

None == [class |-> "NoneType"]

NoCall == [fn |-> "", args |-> <<>>]

MaxPackages == 3

MaxVal == 2

\* the three packages of the script, and others a sensor could send: an
\* unknown code, too few values, a zero duration
Pool ==
    { <<"SWM", <<720, 1, 80, 25, 40>>>>,
      <<"RUN", <<15000, 1, 75>>>>,
      <<"WLK", <<9000, 1, 75, 180>>>>,
      <<"XYZ", <<1, 2, 3>>>>,
      <<"RUN", <<15000, 1>>>>,
      <<"RUN", <<15000, 0, 75>>>> }

PackageLists == UNION {[1..n -> Pool] : n \in 0..MaxPackages}

\* the codes and the argument lists tried on the module directly
Codes == {"RUN", "SWM", "WLK", "XYZ", "run"}

Sample == <<720, 1, 80, 25, 40, 2>>

ArgLists ==
    UNION {[1..n -> 0..MaxVal] : n \in 3..5}
        \cup {SubSeq(Sample, 1, n) : n \in 0..Len(Sample)}

ScriptInit ==
    /\ packages \in PackageLists
    /\ idx = 1
    /\ pc = "for"
    /\ training = None
    /\ stdout = <<>>
    /\ err = None

UnitInit ==
    /\ origin = NoCall
    /\ obj = None
    /\ call = NoCall
    /\ result = None

\* mutant: a package that read_package refuses is skipped
LoopReadPackageSkipping ==
    /\ pc = "for"
    /\ idx <= Len(packages)
    /\ \E r \in {read_package(packages[idx][1], packages[idx][2])} :
           IF IsRaise(r)
           THEN /\ idx' = idx + 1
                /\ pc' = "for"
                /\ UNCHANGED training
           ELSE /\ training' = r
                /\ pc' = "main"
                /\ UNCHANGED idx
    /\ UNCHANGED <<packages, stdout, err>>
    /\ UNCHANGED <<origin, obj, call, result>>

\* training = read_package(workout_type, data)
LoopReadPackage ==
    /\ pc = "for"
    /\ idx <= Len(packages)
    /\ \E r \in {read_package(packages[idx][1], packages[idx][2])} :
           IF IsRaise(r)
           THEN /\ err' = r
                /\ pc' = "traceback"
                /\ UNCHANGED training
           ELSE /\ training' = r
                /\ pc' = "main"
                /\ UNCHANGED err
    /\ UNCHANGED <<packages, idx, stdout>>
    /\ UNCHANGED unitVars

\* mutant: the line is put before the lines already printed
LoopMainPrepending ==
    /\ pc = "main"
    /\ \E r \in {main(training)} :
           IF IsRaise(r)
           THEN /\ err' = r
                /\ pc' = "traceback"
                /\ UNCHANGED <<stdout, idx>>
           ELSE /\ stdout' = <<r.print>> \o stdout
                /\ idx' = idx + 1
                /\ pc' = "for"
                /\ UNCHANGED err
    /\ UNCHANGED <<packages, training>>
    /\ UNCHANGED <<origin, obj, call, result>>

\* main(training), which prints one line, and the step to the next package
LoopMain ==
    /\ pc = "main"
    /\ \E r \in {main(training)} :
           IF IsRaise(r)
           THEN /\ err' = r
                /\ pc' = "traceback"
                /\ UNCHANGED <<stdout, idx>>
           ELSE /\ stdout' = Append(stdout, r.print)
                /\ idx' = idx + 1
                /\ pc' = "for"
                /\ UNCHANGED err
    /\ UNCHANGED <<packages, training>>
    /\ UNCHANGED unitVars

\* the list is exhausted: the script ends
LoopEnd ==
    /\ pc = "for"
    /\ idx > Len(packages)
    /\ pc' = "exit"
    /\ UNCHANGED <<packages, idx, training, stdout, err>>
    /\ UNCHANGED unitVars

Init == ScriptInit /\ UnitInit

Next == LoopReadPackage \/ LoopMain \/ LoopEnd

Spec == Init /\ [][Next]_vars

----------------------------------------------------------------------------
(* The module used directly: one object made, by read_package or by its    *)
(* class, and one method called on it.                                     *)

CallReadPackage ==
    \E workout_type \in Codes, data \in ArgLists :
        /\ origin = NoCall
        /\ origin' = [fn |-> "read_package", args |-> <<workout_type, data>>]
        /\ result' = read_package(workout_type, data)
        /\ obj' = IF IsRaise(result') THEN None ELSE result'
        /\ UNCHANGED call
        /\ UNCHANGED scriptVars

CallClass ==
    \E class \in Classes, args \in ArgLists :
        /\ origin = NoCall
        /\ origin' = [fn |-> class, args |-> args]
        /\ result' = New(class, args)
        /\ obj' = IF IsRaise(result') THEN None ELSE result'
        /\ UNCHANGED call
        /\ UNCHANGED scriptVars

CallGetDistance ==
    /\ obj # None
    /\ call = NoCall
    /\ call' = [fn |-> "get_distance", args |-> <<>>]
    /\ result' = get_distance(obj)
    /\ UNCHANGED <<origin, obj>>
    /\ UNCHANGED scriptVars

CallGetMeanSpeed ==
    /\ obj # None
    /\ call = NoCall
    /\ call' = [fn |-> "get_mean_speed", args |-> <<>>]
    /\ result' = get_mean_speed(obj)
    /\ UNCHANGED <<origin, obj>>
    /\ UNCHANGED scriptVars

CallGetSpentCalories ==
    /\ obj # None
    /\ call = NoCall
    /\ call' = [fn |-> "get_spent_calories", args |-> <<>>]
    /\ result' = get_spent_calories(obj)
    /\ UNCHANGED <<origin, obj>>
    /\ UNCHANGED scriptVars

CallShowTrainingInfo ==
    /\ obj # None
    /\ call = NoCall
    /\ call' = [fn |-> "show_training_info", args |-> <<>>]
    /\ result' = show_training_info(obj)
    /\ UNCHANGED <<origin, obj>>
    /\ UNCHANGED scriptVars

UnitStart ==
    /\ packages = <<>>
    /\ idx = 1
    /\ pc = "for"
    /\ training = None
    /\ stdout = <<>>
    /\ err = None
    /\ UnitInit

UnitNext ==
    \/ CallReadPackage
    \/ CallClass
    \/ CallGetDistance
    \/ CallGetMeanSpeed
    \/ CallGetSpentCalories
    \/ CallShowTrainingInfo

UnitSpec == UnitStart /\ [][UnitNext]_vars

----------------------------------------------------------------------------
(* Properties.  Those of read_package and of the calculators are checked   *)
(* under UnitSpec, those of the script's loop under Spec.                  *)

Recognized == {"RUN", "SWM", "WLK"}

\* the number of values each recognized code takes
ParamCount(code) == IF code = "RUN" THEN 3 ELSE IF code = "WLK" THEN 4 ELSE 5

Raised(r, cls) == IsRaise(r) /\ r.raised = cls

\* two results are the same: the same float, or the same exception
SameResult(a, b) == a = b

ByReadPackage == origin.fn = "read_package"

\* a float that a double holds: its binary exponent is among those of the
\* normal doubles, -1074 to 971 for a mantissa of MantBits digits
Finite(x) == IsZero(x) \/ (-1074 <= x.exp /\ x.exp <= 971)

IsNumber(v) == ~IsRaise(v) /\ IsFloat(v) /\ Finite(v)

\* |x - n/d| <= (n/d) / 2^50, for a float x and integers n >= 0, d > 0: x
\* is n/d up to the rounding of a few float operations
WithinRounding(x, n, d) ==
    LET l    == BigMul(ShiftLeft(x.man, Max(x.exp, 0)), BigOf(d))
        r    == ShiftLeft(BigOf(n), Max(-x.exp, 0))
        diff == IF BigCmp(l, r) >= 0 THEN BigSub(l, r) ELSE BigSub(r, l)
    IN  /\ IsFloat(x)
        /\ x.neg => IsZero(x)
        /\ BigCmp(ShiftLeft(diff, 50), r) <= 0

\* C1: read_package maps RUN to Running, SWM to Swimming and WLK to
\* SportsWalking, and gives the values to the attributes by position: the
\* first to action, the second to duration, the third to weight, then the
\* fourth to height (WLK) or the fourth and fifth to length_pool and
\* count_pool (SWM), each value unchanged.
C1_PositionalAssignment ==
    ByReadPackage /\ origin.args[1] \in Recognized
        /\ Len(origin.args[2]) = ParamCount(origin.args[1])
    => LET code == origin.args[1]
           d    == origin.args[2]
       IN  /\ code = "RUN" =>
                obj = [class |-> "Running", action |-> d[1],
                       duration |-> d[2], weight |-> d[3]]
           /\ code = "WLK" =>
                obj = [class |-> "SportsWalking", action |-> d[1],
                       duration |-> d[2], weight |-> d[3], height |-> d[4]]
           /\ code = "SWM" =>
                obj = [class |-> "Swimming", action |-> d[1],
                       duration |-> d[2], weight |-> d[3],
                       length_pool |-> d[4], count_pool |-> d[5]]

C1_Witness ==
    /\ ByReadPackage
    /\ origin.args = <<"SWM", <<720, 1, 80, 25, 40>>>>
    /\ obj.class = "Swimming"
    /\ obj.length_pool = 25
    /\ obj.count_pool = 40

\* C2: for a code that is none of RUN, SWM, WLK, and values of any number,
\* read_package raises ValueError, whose message names the code and lists
\* "RUN, SWM, WLK"; it returns no object, and the code is checked before
\* the number of values.
C2_UnknownCode ==
    ByReadPackage /\ origin.args[1] \notin Recognized
    => /\ result = [raised |-> "ValueError",
                    workout_type |-> origin.args[1],
                    workout_list |-> "RUN, SWM, WLK"]
       /\ obj = None

C2_Witness ==
    /\ ByReadPackage
    /\ origin.args[1] = "XYZ"
    /\ Len(origin.args[2]) = 6
    /\ Raised(result, "ValueError")

\* C3: for a recognized code, read_package raises TypeError (the arity
\* mismatch) whenever the number of values is not the class's parameter
\* count, 3 for RUN, 4 for WLK, 5 for SWM, be it smaller or larger, and it
\* returns no object.
C3_ArityMismatch ==
    ByReadPackage /\ origin.args[1] \in Recognized
        /\ Len(origin.args[2]) # ParamCount(origin.args[1])
    => /\ Raised(result, "TypeError")
       /\ result.takes = ParamCount(origin.args[1])
       /\ result.given = Len(origin.args[2])
       /\ obj = None

C3_Witness ==
    /\ ByReadPackage
    /\ origin.args[1] = "RUN"
    /\ Len(origin.args[2]) = 4
    /\ Raised(result, "TypeError")

\* show_training_info returned a record whose numeric fields are numbers
FiniteRecord(info) ==
    /\ ~IsRaise(info)
    /\ info.duration \in Nat
    /\ IsNumber(info.distance)
    /\ IsNumber(info.speed)
    /\ IsNumber(info.calories)

\* C4 as claimed: for every recognized code and matching number of values,
\* read_package followed by show_training_info raises nothing and gives a
\* record whose numeric fields are finite.
C4_NeverThrows ==
    ByReadPackage /\ obj # None /\ call.fn = "show_training_info"
    => FiniteRecord(result)

\* C4 as amended: the same, for values whose duration is not zero and, for
\* WLK, whose height is not zero.
C4_NeverThrowsNonZero ==
    ByReadPackage /\ obj # None /\ call.fn = "show_training_info"
        /\ obj.duration # 0
        /\ (obj.class = "SportsWalking" => obj.height # 0)
    => FiniteRecord(result)

C4_Witness ==
    /\ ByReadPackage
    /\ call.fn = "show_training_info"
    /\ obj.class = "SportsWalking"
    /\ obj.weight = 0
    /\ obj.duration # 0
    /\ obj.height # 0
    /\ FiniteRecord(result)

\* the action counts an object's own is exchanged for
OtherActions(self) == ((0..(MaxVal + 1)) \cup {720, 721}) \ {self.action}

WithAction(self, action) == [self EXCEPT !.action = action]

\* C5: two Swimming objects that differ in action only have the same mean
\* speed and the same calories, and different distances.
C5_SwimmingSpeedIgnoresAction ==
    obj # None /\ obj.class = "Swimming"
    => \A a \in OtherActions(obj) :
        /\ call.fn = "get_mean_speed" =>
             SameResult(get_mean_speed(WithAction(obj, a)), result)
        /\ call.fn = "get_spent_calories" =>
             SameResult(get_spent_calories(WithAction(obj, a)), result)
        /\ call.fn = "get_distance" =>
             ~SameResult(get_distance(WithAction(obj, a)), result)

C5_Witness ==
    /\ obj # None
    /\ obj.class = "Swimming"
    /\ obj.action = 720
    /\ call.fn = "get_mean_speed"
    /\ IsNumber(result)
    /\ result = Float(1)

\* the step length C8 gives the object's class, in cm
ClaimedStep(self) == IF self.class = "Swimming" THEN 138 ELSE 65

\* what C8 says get_distance returns: the float expression, and the number
\* it stands for
ClaimedDistance(self) ==
    Div(Mul(IntOf(self.action), Dec(ClaimedStep(self), 100)), Float(1000))

IsClaimedDistance(x, self) ==
    /\ x = ClaimedDistance(self)
    /\ WithinRounding(x, self.action * ClaimedStep(self), 100000)

\* C8: get_distance returns the float action * 0.65 / 1000 for Running and
\* SportsWalking objects and action * 1.38 / 1000 for Swimming objects, the
\* real number of that name up to the rounding of floats, a function of
\* action alone, and the record of show_training_info has it as its
\* distance.
C8_DistanceFormula ==
    obj # None /\ obj.class \in {"Running", "SportsWalking", "Swimming"}
    => /\ call.fn = "get_distance" =>
            IsNumber(result) /\ IsClaimedDistance(result, obj)
       /\ call.fn = "show_training_info" /\ ~IsRaise(result) =>
            IsClaimedDistance(result.distance, obj)

C8_Witness ==
    /\ obj # None
    /\ obj.class = "Swimming"
    /\ obj.action = 720
    /\ call.fn = "show_training_info"
    /\ ~IsRaise(result)
    /\ WithinRounding(result.distance, 9936, 10000)
    /\ Format3f(result.distance) = "0.994"

\* C9: get_spent_calories raises NotImplementedError, naming the class,
\* exactly on an object of the base class Training; show_training_info on
\* such an object gives no record; and no object that read_package returns
\* raises it.
C9_UnimplementedOnlyOnBase ==
    /\ call.fn = "get_spent_calories" =>
         /\ Raised(result, "NotImplementedError") <=> obj.class = "Training"
         /\ Raised(result, "NotImplementedError") =>
              result.subclass = obj.class
    /\ call.fn = "show_training_info" /\ obj.class = "Training" =>
         IsRaise(result)
    /\ ByReadPackage /\ obj # None =>
         /\ obj.class # "Training"
         /\ ~Raised(result, "NotImplementedError")

C9_Witness ==
    /\ obj # None
    /\ obj.class = "Training"
    /\ call.fn = "get_spent_calories"
    /\ result = [raised |-> "NotImplementedError", subclass |-> "Training"]

ZeroDivisor(self) ==
    \/ self.duration = 0
    \/ self.class = "SportsWalking" /\ self.height = 0

\* C10: a zero duration or a zero height is not refused by read_package,
\* which returns the object; get_distance still returns; the division by
\* zero comes out of show_training_info as a ZeroDivisionError, which is
\* none of ValueError, TypeError and NotImplementedError, and no record is
\* returned.
C10_ZeroNotGuarded ==
    ByReadPackage /\ origin.args[1] \in Recognized
        /\ Len(origin.args[2]) = ParamCount(origin.args[1])
    => /\ obj # None
       /\ obj.duration = origin.args[2][2]
       /\ call.fn = "get_distance" => IsNumber(result)
       /\ call.fn = "show_training_info" /\ ZeroDivisor(obj) =>
            result = [raised |-> "ZeroDivisionError"]

C10_Witness ==
    /\ ByReadPackage
    /\ obj # None
    /\ obj.class = "SportsWalking"
    /\ obj.height = 0
    /\ obj.duration # 0
    /\ call.fn = "show_training_info"
    /\ Raised(result, "ZeroDivisionError")

\* what the script does with one package: the exception it ends with, or
\* the line it prints
Outcome(package) ==
    LET made == read_package(package[1], package[2])
    IN  IF IsRaise(made) THEN made ELSE main(made)

\* a valid package: a recognized code, as many values as its class takes, a
\* duration that is not zero and, for WLK, a height that is not zero
Valid(package) ==
    /\ package[1] \in Recognized
    /\ Len(package[2]) = ParamCount(package[1])
    /\ package[2][2] # 0
    /\ package[1] = "WLK" => package[2][4] # 0

AllValid == \A k \in 1..Len(packages) : Valid(packages[k])

\* the lines printed are those of the first packages, in their order
PrintedInOrder ==
    /\ Len(stdout) <= Len(packages)
    /\ \A k \in 1..Len(stdout) : stdout[k] = Outcome(packages[k]).print

\* C6: when every package is valid, the script prints one line for each, in
\* the order of the list: the k-th line is that of the k-th package, a
\* package is read and then reported before the next one is read, and
\* nothing else is printed.
C6_OneLinePerPair ==
    AllValid
    => /\ PrintedInOrder
       /\ err = None
       /\ pc \in {"for", "main", "exit"}
       /\ Len(stdout) = idx - 1
       /\ pc = "main" =>
            /\ idx <= Len(packages)
            /\ training = read_package(packages[idx][1], packages[idx][2])
       /\ pc = "exit" => Len(stdout) = Len(packages)

C6_Witness ==
    /\ pc = "exit"
    /\ packages = << <<"SWM", <<720, 1, 80, 25, 40>>>>,
                     <<"RUN", <<15000, 1, 75>>>>,
                     <<"WLK", <<9000, 1, 75, 180>>>> >>
    /\ stdout = << <<"Swimming", "1.000", "0.994", "1.000", "336.000">>,
                   <<"Running", "1.000", "9.750", "9.750", "797.805">>,
                   <<"SportsWalking", "1.000", "5.850", "5.850", "349.252">> >>

\* the first package that raises
FirstInvalid ==
    CHOOSE k \in 1..Len(packages) :
        ~Valid(packages[k]) /\ \A j \in 1..(k - 1) : Valid(packages[j])

\* C7: when the k-th package is the first that raises, the run ends with
\* its exception: the lines of the packages before it are printed, none is
\* printed for it, and no later package is read or reported.
C7_StopsAtFirstError ==
    ~AllValid
    => /\ PrintedInOrder
       /\ idx <= FirstInvalid
       /\ Len(stdout) = idx - 1
       /\ pc # "exit"
       /\ err # None <=> pc = "traceback"
       /\ pc = "traceback" =>
            /\ idx = FirstInvalid
            /\ err = Outcome(packages[FirstInvalid])
            /\ IsRaise(err)
            /\ ~ENABLED Next

C7_Witness ==
    /\ pc = "traceback"
    /\ Len(packages) = 3
    /\ idx = 2
    /\ stdout = << <<"Swimming", "1.000", "0.994", "1.000", "336.000">> >>
    /\ err = [raised |-> "ZeroDivisionError"]

====
